---- MODULE Spec2Model ----
(***************************************************************************)
(* Trust boundary and quota engine of the GDZ Mini App backend.            *)
(*                                                                         *)
(*   src/backend/database.py  the users table, get_or_create_user,         *)
(*                            check_can_solve, increment_usage, the admin  *)
(*                            statements                                   *)
(*   src/backend/main.py      validate_init_data, require_telegram, the    *)
(*                            /api/solve handler, the admin endpoints      *)
(*                                                                         *)
(* Three specifications share the definitions below:                       *)
(*   Spec          concurrent HTTP requests; every SQL statement is one    *)
(*                 atomic step and handlers interleave between statements  *)
(*   SpecSeq       the database.py functions called one after another      *)
(*   SpecValidate  validate_init_data applied to launch payloads           *)
(***************************************************************************)
EXTENDS Integers, Sequences, FiniteSets, TLC

(***************************************************************************)
(* Program constants.                                                      *)
(***************************************************************************)
FREE_LIMIT == 10
FREE_COOLDOWN_DAYS == 7
INIT_DATA_EXPIRY == 86400
SecondsPerDay == 86400

(***************************************************************************)
(* Bounds of the model.                                                    *)
(***************************************************************************)
\* number of request handlers that can be in flight at once
NumProcs == 2
\* cap of the requests_used counter (guards of the increments)
MaxUsed == 13
\* the wall clock (time.time(), seconds) at the first state
Epoch == 1700000000

Procs == 1..NumProcs

\* the identities requests are made for; 0 stands for "no telegram_id" (None)
Ids == {1}
NoId == 0

\* the instants the wall clock passes through in Spec: a cooldown apart
Instants == {Epoch, Epoch + FREE_COOLDOWN_DAYS * SecondsPerDay}

VARIABLES
    config,     \* process-start configuration (environment variables)
    clock,      \* time.time()
    users,      \* the users table: a set of rows
    req,        \* per handler slot: the position and locals of the request
    proSeen,    \* history: identities whose row has ever had is_pro = 1
    peak,       \* history: per identity, the most solve requests in flight at once
    seq,        \* SpecSeq: the last database.py call and what it returned
    val         \* SpecValidate: the payload under validation and the result

vars == <<config, clock, users, req, proSeen, peak, seq, val>>

(***************************************************************************)
(* The users table (CREATE_TABLE_SQL) and its statements.                  *)
(***************************************************************************)
\* variant: the INSERT leaves period_start to its DEFAULT 0
NewRow_DefaultPeriod(telegram_id, username, first_name, now) ==
    [telegram_id |-> telegram_id, username |-> username, first_name |-> first_name,
     is_banned |-> 0, is_pro |-> 0, requests_used |-> 0,
     period_start |-> 0, created_at |-> now]

\* variant: a new row starts with one request counted
NewRow_Prepaid(telegram_id, username, first_name, now) ==
    [telegram_id |-> telegram_id, username |-> username, first_name |-> first_name,
     is_banned |-> 0, is_pro |-> 0, requests_used |-> 1,
     period_start |-> now, created_at |-> now]

\* INSERT INTO users (telegram_id, username, first_name, created_at,
\* period_start): the other columns take their DEFAULT 0
NewRow(telegram_id, username, first_name, now) ==
    [telegram_id |-> telegram_id, username |-> username, first_name |-> first_name,
     is_banned |-> 0, is_pro |-> 0, requests_used |-> 0,
     period_start |-> now, created_at |-> now]

\* SELECT * FROM users WHERE telegram_id = ?  (all matching rows)
SelectRows(db, telegram_id) == {r \in db : r.telegram_id = telegram_id}

\* cur.fetchone(): <<row>> or <<>> (None)
FetchOne(db, telegram_id) ==
    IF SelectRows(db, telegram_id) = {} THEN <<>>
    ELSE <<CHOOSE r \in SelectRows(db, telegram_id) : TRUE>>

\* telegram_id INTEGER PRIMARY KEY: an INSERT of an existing key fails
InsertFails(db, telegram_id) == SelectRows(db, telegram_id) # {}

InsertUser(db, telegram_id, username, first_name, now) ==
    db \cup {NewRow(telegram_id, username, first_name, now)}

\* variant: the reset forgets period_start
ResetStmt_KeepPeriod(db, telegram_id, now) ==
    {IF r.telegram_id = telegram_id
        THEN [r EXCEPT !.requests_used = 0] ELSE r : r \in db}

\* UPDATE users SET requests_used = 0, period_start = ? WHERE telegram_id = ?
ResetStmt(db, telegram_id, now) ==
    {IF r.telegram_id = telegram_id
        THEN [r EXCEPT !.requests_used = 0, !.period_start = now] ELSE r : r \in db}

\* variant: the counter stops at the free limit
IncrementStmt_Saturating(db, telegram_id) ==
    {IF r.telegram_id = telegram_id /\ r.requests_used < FREE_LIMIT
        THEN [r EXCEPT !.requests_used = @ + 1] ELSE r : r \in db}

\* variant: only the rows of free, unbanned identities are counted
IncrementStmt_FreeOnly(db, telegram_id) ==
    {IF r.telegram_id = telegram_id /\ r.is_banned = 0 /\ r.is_pro = 0
        THEN [r EXCEPT !.requests_used = @ + 1] ELSE r : r \in db}

\* UPDATE users SET requests_used = requests_used + 1 WHERE telegram_id = ?
IncrementStmt(db, telegram_id) ==
    {IF r.telegram_id = telegram_id
        THEN [r EXCEPT !.requests_used = r.requests_used + 1] ELSE r : r \in db}

\* variant: granting pro also lifts a ban
SetProStmt_Unban(db, telegram_id, is_pro) ==
    {IF r.telegram_id = telegram_id
        THEN [r EXCEPT !.is_pro = IF is_pro THEN 1 ELSE 0,
                       !.is_banned = IF is_pro THEN 0 ELSE @]
        ELSE r : r \in db}

\* UPDATE users SET is_pro = ? WHERE telegram_id = ?
SetProStmt(db, telegram_id, is_pro) ==
    {IF r.telegram_id = telegram_id
        THEN [r EXCEPT !.is_pro = IF is_pro THEN 1 ELSE 0] ELSE r : r \in db}

\* variant: a ban of an identity without a row stores a row for it
SetBannedStmt_Upsert(db, telegram_id, is_banned) ==
    IF \E r \in db : r.telegram_id = telegram_id
    THEN {IF r.telegram_id = telegram_id
             THEN [r EXCEPT !.is_banned = IF is_banned THEN 1 ELSE 0] ELSE r : r \in db}
    ELSE db \cup {[telegram_id |-> telegram_id, username |-> "", first_name |-> "",
                   is_banned |-> IF is_banned THEN 1 ELSE 0, is_pro |-> 0,
                   requests_used |-> 0, period_start |-> 0, created_at |-> 0]}

\* UPDATE users SET is_banned = ? WHERE telegram_id = ?
SetBannedStmt(db, telegram_id, is_banned) ==
    {IF r.telegram_id = telegram_id
        THEN [r EXCEPT !.is_banned = IF is_banned THEN 1 ELSE 0] ELSE r : r \in db}

\* variant: the values are stored as passed, an empty one included
UpdateProfileStmt_Overwrite(db, telegram_id, username, first_name, row) ==
    {IF r.telegram_id = telegram_id
        THEN [r EXCEPT !.username = username, !.first_name = first_name]
        ELSE r : r \in db}

\* UPDATE users SET username = ?, first_name = ? WHERE telegram_id = ?
\* with (username or row["username"], first_name or row["first_name"])
UpdateProfileStmt(db, telegram_id, username, first_name, row) ==
    {IF r.telegram_id = telegram_id
        THEN [r EXCEPT !.username = IF username # "" THEN username ELSE row.username,
                       !.first_name = IF first_name # "" THEN first_name
                                      ELSE row.first_name]
        ELSE r : r \in db}

\* the increments stop at the cap of the model
BelowCap(db, telegram_id) ==
    \A r \in SelectRows(db, telegram_id) : r.requests_used < MaxUsed

(***************************************************************************)
(* check_can_solve: the decision.                                          *)
(***************************************************************************)
\* the dict check_can_solve returns; remaining "unlimited" is the flag
Limits(allowed, remaining, unlimited, reason) ==
    [allowed |-> allowed, remaining |-> remaining, unlimited |-> unlimited,
     reason |-> reason]

BannedLimits == Limits(FALSE, 0, FALSE, "banned")
ProLimits == Limits(TRUE, 0, TRUE, "pro")

Max(a, b) == IF a >= b THEN a ELSE b

\* variant: no max(0, ...) and the limit tested with ==
FreeLimits_NoClamp(requests_used) ==
    LET remaining == FREE_LIMIT - requests_used
    IN  IF remaining = 0 THEN Limits(FALSE, 0, FALSE, "limit")
        ELSE Limits(TRUE, remaining, FALSE, "free")

\* variant: the limit tested with < instead of <=
FreeLimits_OffByOne(requests_used) ==
    LET remaining == Max(0, FREE_LIMIT - requests_used)
    IN  IF remaining < 0 THEN Limits(FALSE, 0, FALSE, "limit")
        ELSE Limits(TRUE, remaining, FALSE, "free")

\* variant: a request is still granted when the counter is at the limit
FreeLimits_Inclusive(requests_used) ==
    LET remaining == Max(0, FREE_LIMIT - requests_used)
    IN  IF requests_used > FREE_LIMIT THEN Limits(FALSE, 0, FALSE, "limit")
        ELSE Limits(TRUE, remaining, FALSE, "free")

\* remaining = max(0, FREE_LIMIT - requests_used); remaining <= 0 -> limit
FreeLimits(requests_used) ==
    LET remaining == Max(0, FREE_LIMIT - requests_used)
    IN  IF remaining <= 0 THEN Limits(FALSE, 0, FALSE, "limit")
        ELSE Limits(TRUE, remaining, FALSE, "free")

\* variant: the window compared with > instead of >=
CooldownElapsed_Strict(user, now) ==
    LET period_start == IF user.period_start # 0 THEN user.period_start ELSE now
    IN  now - period_start > FREE_COOLDOWN_DAYS * SecondsPerDay

\* period_start = user["period_start"] or now;
\* now - period_start >= FREE_COOLDOWN_DAYS * 86400
CooldownElapsed(user, now) ==
    LET period_start == IF user.period_start # 0 THEN user.period_start ELSE now
    IN  now - period_start >= FREE_COOLDOWN_DAYS * SecondsPerDay

\* variant: is_pro tested before is_banned
Branch_ProFirst(user, now) ==
    IF user.is_pro # 0 THEN "pro"
    ELSE IF user.is_banned # 0 THEN "banned"
    ELSE IF CooldownElapsed(user, now) THEN "reset"
    ELSE "free"

\* variant: pro only lifts the limit while the counter is below it
Branch_ProWithinLimit(user, now) ==
    IF user.is_banned # 0 THEN "banned"
    ELSE IF user.is_pro # 0 /\ user.requests_used < FREE_LIMIT THEN "pro"
    ELSE IF CooldownElapsed(user, now) THEN "reset"
    ELSE "free"

\* the branch check_can_solve takes on the row it read:
\* "banned", "pro", "reset" (the UPDATE follows) or "free"
Branch(user, now) ==
    IF user.is_banned # 0 THEN "banned"
    ELSE IF user.is_pro # 0 THEN "pro"
    ELSE IF CooldownElapsed(user, now) THEN "reset"
    ELSE "free"

\* what check_can_solve returns on that branch
BranchLimits(user, now) ==
    CASE Branch(user, now) = "banned" -> BannedLimits
      [] Branch(user, now) = "pro" -> ProLimits
      [] Branch(user, now) = "reset" -> FreeLimits(0)
      [] OTHER -> FreeLimits(user.requests_used)

(***************************************************************************)
(* Launch payloads (initData).  A payload is modelled after parse_qs: each *)
(* key holds the text of its first value, or is absent.  A text is a       *)
(* record [kind, n]: "int" a decimal numeral of value n, "text" some other *)
(* text number n, "blank" the empty text, "json_id" a JSON object with     *)
(* "id": n, "json_noid" a JSON object without "id", "malformed" a text     *)
(* json.loads rejects, "folded" the text number 1 followed by a newline    *)
(* (%0A in the header) and user=<the JSON object with "id": n>.            *)
(***************************************************************************)
Absent == [kind |-> "absent", n |-> 0]
Blank == [kind |-> "blank", n |-> 0]
IntText(n) == [kind |-> "int", n |-> n]
Text(n) == [kind |-> "text", n |-> n]
JsonObject(id) == [kind |-> "json_id", n |-> id]
JsonNoId == [kind |-> "json_noid", n |-> 0]
Malformed == [kind |-> "malformed", n |-> 0]
Folded(id) == [kind |-> "folded", n |-> id]

\* the pieces of a check-string: a key, the "=" after it, the "\n" between
\* two pairs, and the texts of the values
KeyAtom(k) == [kind |-> k, n |-> 0]
Equals == [kind |-> "=", n |-> 0]
Newline == [kind |-> "\n", n |-> 0]

\* the characters of a text, as a sequence of pieces
Chars(text) ==
    CASE text.kind = "blank" -> <<>>
      [] text.kind = "folded" ->
            <<Text(1), Newline, KeyAtom("user"), Equals, JsonObject(text.n)>>
      [] OTHER -> <<text>>

\* "\n".join(lines)
RECURSIVE JoinLines(_)
JoinLines(lines) ==
    IF lines = <<>> THEN <<>>
    ELSE IF Len(lines) = 1 THEN lines[1]
    ELSE lines[1] \o <<Newline>> \o JoinLines(Tail(lines))

\* the keys a payload carries besides hash, in sorted() order
FieldKeys == <<"auth_date", "query_id", "user">>
FieldKeySet == {FieldKeys[i] : i \in 1..Len(FieldKeys)}

\* HMAC-SHA256 and hexdigest as free constructors: two digests are equal
\* exactly when key and message are (no collisions, no forgery without key)
Hmac(key, msg) == [key |-> key, msg |-> msg]
Hex(digest) == [kind |-> "hex", digest |-> digest]
NoHash == [kind |-> "absent", digest |-> Hmac(Hmac("", ""), <<>>)]
EmptyHash == [kind |-> "blank", digest |-> Hmac(Hmac("", ""), <<>>)]

\* the header: present = FALSE is a missing or empty X-Telegram-Init-Data
InitData(hash, fields) == [present |-> TRUE, hash |-> hash, fields |-> fields]
Fields(auth_date, query_id, user) ==
    [k \in FieldKeySet |-> CASE k = "auth_date" -> auth_date
                             [] k = "query_id" -> query_id
                             [] OTHER -> user]
NoInitData == [present |-> FALSE, hash |-> NoHash, fields |-> Fields(Absent, Absent, Absent)]

\* variant: the user field is left out of the check-string
CheckString_SkipUser(fields) ==
    LET present == SelectSeq(<<"auth_date", "query_id">>,
                             LAMBDA k : fields[k].kind # "absent")
    IN  JoinLines([i \in 1..Len(present) |->
                     <<KeyAtom(present[i]), Equals>> \o Chars(fields[present[i]])])

\* check_pairs: for key in sorted(parsed.keys()), key != "hash":
\* f"{key}={parsed[key][0]}", joined with "\n"
CheckString(fields) ==
    LET present == SelectSeq(FieldKeys, LAMBDA k : fields[k].kind # "absent")
    IN  JoinLines([i \in 1..Len(present) |->
                     <<KeyAtom(present[i]), Equals>> \o Chars(fields[present[i]])])

\* secret_key = hmac.new(b"WebAppData", TELEGRAM_BOT_TOKEN.encode(), sha256)
SecretKey(token) == Hmac("WebAppData", token)

\* hmac.new(secret_key, check_string.encode(), sha256).hexdigest()
ComputedHash(token, fields) == Hex(Hmac(SecretKey(token), CheckString(fields)))

\* what validate_init_data and require_telegram return: None or a dict
NoneResult == [kind |-> "none", has_id |-> FALSE, id |-> 0]
DictResult(has_id, id) == [kind |-> "dict", has_id |-> has_id, id |-> id]
EmptyDict == DictResult(FALSE, 0)

\* variant: a text that does not parse is read as the empty object
JsonLoads_Lenient(user_json) ==
    CASE user_json.kind = "json_id" -> DictResult(TRUE, user_json.n)
      [] OTHER -> EmptyDict

\* json.loads(unquote(user_json)); a malformed text raises
JsonLoads(user_json) ==
    CASE user_json.kind = "json_id" -> DictResult(TRUE, user_json.n)
      [] user_json.kind = "json_noid" -> EmptyDict
      [] OTHER -> NoneResult

\* int(parsed.get("auth_date", ["0"])[0]): <<n>>, or <<>> when int() raises
AuthDate(fields) ==
    CASE fields["auth_date"].kind = "absent" -> <<0>>
      [] fields["auth_date"].kind = "int" -> <<fields["auth_date"].n>>
      [] OTHER -> <<>>

\* variant: the operands of the subtraction swapped
Expired_Swapped(auth_date, now) == auth_date - now > INIT_DATA_EXPIRY

\* time.time() - auth_date > INIT_DATA_EXPIRY
Expired(auth_date, now) == now - auth_date > INIT_DATA_EXPIRY

HashMatches(token, init_data) ==
    ComputedHash(token, init_data.fields) = init_data.hash

validate_init_data(token, init_data, now) ==
    IF token = "" \/ ~init_data.present THEN NoneResult
    ELSE IF init_data.hash.kind # "hex" THEN NoneResult
    ELSE IF AuthDate(init_data.fields) = <<>> THEN NoneResult
    ELSE IF Expired(AuthDate(init_data.fields)[1], now) THEN NoneResult
    ELSE IF ~HashMatches(token, init_data) THEN NoneResult
    ELSE IF init_data.fields["user"].kind \in {"absent", "blank"} THEN EmptyDict
    ELSE JsonLoads(init_data.fields["user"])

\* variant: no bypass when the token is not configured
require_telegram_NoBypass(token, init_data, now) ==
    IF ~init_data.present
        THEN [status |-> 403, detail |-> "Missing Telegram authorization",
              user |-> NoneResult]
    ELSE IF validate_init_data(token, init_data, now) = NoneResult
        THEN [status |-> 403, detail |-> "Invalid Telegram authorization",
              user |-> NoneResult]
    ELSE [status |-> 200, detail |-> "",
          user |-> validate_init_data(token, init_data, now)]

\* require_telegram: [status, user]; status 200 stands for "returned"
require_telegram(token, init_data, now) ==
    IF token = "" THEN [status |-> 200, detail |-> "", user |-> EmptyDict]
    ELSE IF ~init_data.present
        THEN [status |-> 403, detail |-> "Missing Telegram authorization",
              user |-> NoneResult]
    ELSE IF validate_init_data(token, init_data, now) = NoneResult
        THEN [status |-> 403, detail |-> "Invalid Telegram authorization",
              user |-> NoneResult]
    ELSE [status |-> 200, detail |-> "",
          user |-> validate_init_data(token, init_data, now)]

\* tg_user.get("id"): the id, or 0 when it is absent (both are falsy)
ClaimId(tg_user) == IF tg_user.has_id THEN tg_user.id ELSE NoId

(***************************************************************************)
(* database.py, each function run from call to return with no other        *)
(* request in between: [db, result].                                       *)
(***************************************************************************)
\* _sqlite_get_or_create_user / _turso_get_or_create_user
get_or_create_user(db, telegram_id, username, first_name, now) ==
    LET row == FetchOne(db, telegram_id)
    IN  IF row # <<>>
        THEN IF username # "" \/ first_name # ""
             THEN LET db1 == UpdateProfileStmt(db, telegram_id, username,
                                               first_name, row[1])
                  IN  [db |-> db1, user |-> FetchOne(db1, telegram_id)[1]]
             ELSE [db |-> db, user |-> row[1]]
        ELSE LET db1 == InsertUser(db, telegram_id, username, first_name, now)
             IN  [db |-> db1, user |-> FetchOne(db1, telegram_id)[1]]

check_can_solve(db, telegram_id, now) ==
    LET g == get_or_create_user(db, telegram_id, "", "", now)
    IN  [db |-> IF Branch(g.user, now) = "reset"
                THEN ResetStmt(g.db, telegram_id, now) ELSE g.db,
         limits |-> BranchLimits(g.user, now)]

\* variant: the UPDATE is never committed
increment_usage_NoCommit(db, telegram_id) == db

increment_usage(db, telegram_id) == IncrementStmt(db, telegram_id)

set_user_pro(db, telegram_id, is_pro) == SetProStmt(db, telegram_id, is_pro)

set_user_banned(db, telegram_id, is_banned) ==
    SetBannedStmt(db, telegram_id, is_banned)

\* variant: the admin reset zeroes the counter and keeps period_start
reset_user_requests_CounterOnly(db, telegram_id, now) ==
    {IF r.telegram_id = telegram_id THEN [r EXCEPT !.requests_used = 0] ELSE r : r \in db}

reset_user_requests(db, telegram_id, now) == ResetStmt(db, telegram_id, now)

\* history: the identities that have (had) a row with is_pro = 1
ProIds(db) == {r.telegram_id : r \in {x \in db : x.is_pro # 0}}

(***************************************************************************)
(* Configuration, read once at import time.                                *)
(***************************************************************************)
BotToken == "bot-token"
OtherToken == "other-token"
AdminSecretValue == "admin-secret"

Configs ==
    [TELEGRAM_BOT_TOKEN : {"", BotToken},
     ADMIN_SECRET : {"", AdminSecretValue},
     \* ONLYSQ_API_STYLE == "v2" and not OPENROUTER_API_KEY
     onlysq_v2 : BOOLEAN,
     \* client = build_openai_client() is not None
     client : BOOLEAN]

(***************************************************************************)
(* Request handlers.  req[p] holds the position (pc) and the locals of the *)
(* request in slot p: tid is req.telegram_id (0 for None), user the row    *)
(* get_or_create_user fetched, now the time.time() it last read, limits    *)
(* what check_can_solve returned, ai how the AI call ended, status and     *)
(* detail the HTTP response.  Three fields are history: zeroed (the reset  *)
(* of this request changed a nonzero requests_used to 0), increments (the  *)
(* increment statements of this request that changed a row) and failed     *)
(* (how a store statement of this request failed, "" if none did).         *)
(***************************************************************************)
IdleReq ==
    [pc |-> "idle", tid |-> NoId, user |-> <<>>, now |-> 0, limits |-> <<>>,
     ai |-> "", status |-> 0, detail |-> "", zeroed |-> FALSE, increments |-> 0,
     failed |-> ""]

\* raise HTTPException(status_code, detail) / return the response
Respond(r, status, detail) ==
    [r EXCEPT !.pc = "done", !.status = status, !.detail = detail, !.user = <<>>,
              !.now = 0]

\* The issuing side (spec 4.1, steps 4-6): whoever holds a token signs the
\* key=value pairs of the fields, sorted by key and joined by newline.
PlatformLine(fields, k) ==
    IF fields[k] = Absent THEN <<>>
    ELSE <<(<<KeyAtom(k), Equals>> \o Chars(fields[k]))>>

PlatformCheckString(fields) ==
    JoinLines(PlatformLine(fields, "auth_date") \o PlatformLine(fields, "query_id")
              \o PlatformLine(fields, "user"))

PlatformSign(token, fields) ==
    Hex(Hmac(Hmac("WebAppData", token), PlatformCheckString(fields)))

\* a payload whose hash was made for exactly its fields
Signed(token, fields) == InitData(PlatformSign(token, fields), fields)

\* the payloads requests of Spec carry: none, payloads signed for the bot at
\* some instant, and one signed under another token

SolveInitData ==
    {NoInitData}
    \cup {Signed(BotToken, Fields(IntText(t), Absent, u)) :
            t \in Instants, u \in {Absent, JsonNoId, JsonObject(1), JsonObject(2)}}
    \cup {Signed(OtherToken, Fields(IntText(Epoch), Absent, JsonObject(1)))}

\* the requests for an identity that have passed the checks of solve and
\* have not responded yet
InFlight(rq, telegram_id) ==
    {p \in Procs : rq[p].pc \notin {"idle", "done"} /\ rq[p].tid = telegram_id}

\* variant: the claim's id is never compared with the declared id
SolveEnter_NoMismatchCheck(r, cfg, telegram_id, init_data, has_content, now) ==
    LET tg == require_telegram(cfg.TELEGRAM_BOT_TOKEN, init_data, now)
        claim == ClaimId(tg.user)
        tid == IF telegram_id = NoId /\ claim # NoId THEN claim ELSE telegram_id
    IN  IF tg.status # 200 THEN Respond(r, tg.status, tg.detail)
        ELSE IF ~cfg.client
            THEN Respond(r, 500, "AI provider is not configured.")
        ELSE IF ~has_content
            THEN Respond(r, 400, "Either text or image must be provided.")
        ELSE IF tid # NoId THEN [r EXCEPT !.pc = "select", !.tid = tid]
        ELSE [r EXCEPT !.pc = "ai", !.tid = tid]

\* solve, lines 273-291: up to the first await
SolveEnter(r, cfg, telegram_id, init_data, has_content, now) ==
    LET tg == require_telegram(cfg.TELEGRAM_BOT_TOKEN, init_data, now)
        claim == ClaimId(tg.user)
        tid == IF telegram_id = NoId /\ claim # NoId THEN claim ELSE telegram_id
    IN  IF tg.status # 200 THEN Respond(r, tg.status, tg.detail)
        ELSE IF claim # NoId /\ telegram_id # NoId /\ claim # telegram_id
            THEN Respond(r, 403, "User ID mismatch")
        ELSE IF ~cfg.client
            THEN Respond(r, 500, "AI provider is not configured.")
        ELSE IF ~has_content
            THEN Respond(r, 400, "Either text or image must be provided.")
        ELSE IF tid # NoId THEN [r EXCEPT !.pc = "select", !.tid = tid]
        ELSE [r EXCEPT !.pc = "ai", !.tid = tid]

SolveStart(p, telegram_id, init_data, has_content) ==
    /\ req[p].pc = "idle"
    /\ req' = [req EXCEPT ![p] = SolveEnter(req[p], config, telegram_id,
                                            init_data, has_content, clock)]
    /\ peak' = [id \in Ids |-> Max(peak[id], Cardinality(InFlight(req', id)))]
    /\ UNCHANGED <<config, clock, users, proSeen, seq, val>>

\* get_or_create_user: the SELECT and fetchone; without a row, now = time.time()
SelectUser(p) ==
    /\ req[p].pc = "select"
    /\ req' = [req EXCEPT ![p] =
                 IF FetchOne(users, req[p].tid) # <<>>
                 THEN [@ EXCEPT !.pc = "decide", !.user = FetchOne(users, req[p].tid)]
                 ELSE [@ EXCEPT !.pc = "insert", !.now = clock]]
    /\ UNCHANGED <<config, clock, users, proSeen, peak, seq, val>>

\* get_or_create_user: the INSERT and commit; a duplicate key raises
InsertNewUser(p) ==
    /\ req[p].pc = "insert"
    /\ IF InsertFails(users, req[p].tid)
       THEN /\ req' = [req EXCEPT ![p] = Respond(@, 500, "IntegrityError")]
            /\ users' = users
       ELSE /\ users' = InsertUser(users, req[p].tid, "", "", req[p].now)
            /\ req' = [req EXCEPT ![p].pc = "reselect"]
    /\ UNCHANGED <<config, clock, proSeen, peak, seq, val>>

\* get_or_create_user: the SELECT after the INSERT
ReselectUser(p) ==
    /\ req[p].pc = "reselect"
    /\ req' = [req EXCEPT ![p].pc = "decide", ![p].now = 0,
                          ![p].user = FetchOne(users, req[p].tid)]
    /\ UNCHANGED <<config, clock, users, proSeen, peak, seq, val>>

\* solve, lines 292-295, on what check_can_solve returned
AfterLimits(r, limits) ==
    IF limits.allowed
        THEN [r EXCEPT !.pc = "ai", !.limits = <<limits>>, !.user = <<>>, !.now = 0]
    ELSE IF limits.reason = "banned"
        THEN [Respond(r, 403, "banned") EXCEPT !.limits = <<limits>>]
    ELSE [Respond(r, 429, "limit") EXCEPT !.limits = <<limits>>]

\* check_can_solve, lines 100-107 and 119-122: now = time.time(), the branch
Decide(p) ==
    /\ req[p].pc = "decide"
    /\ req' = [req EXCEPT ![p] =
                 IF Branch(req[p].user[1], clock) = "reset"
                 THEN [@ EXCEPT !.pc = "reset", !.now = clock]
                 ELSE AfterLimits(@, BranchLimits(req[p].user[1], clock))]
    /\ UNCHANGED <<config, clock, users, proSeen, peak, seq, val>>

\* check_can_solve, lines 108-122: the UPDATE of the reset, requests_used = 0
ResetPeriod(p) ==
    /\ req[p].pc = "reset"
    /\ users' = ResetStmt(users, req[p].tid, req[p].now)
    /\ req' = [req EXCEPT ![p] =
                 AfterLimits([@ EXCEPT !.zeroed = \E r \in SelectRows(users, req[p].tid) :
                                                      r.requests_used # 0],
                             BranchLimits(req[p].user[1], req[p].now))]
    /\ UNCHANGED <<config, clock, proSeen, peak, seq, val>>

\* the outcomes of the AI call: a completion, an exception, or (OnlySq v2)
\* a response with a status other than 200
AiOutcomes(cfg) == {"ok", "raise"} \cup (IF cfg.onlysq_v2 THEN {"non200"} ELSE {})

\* variant: the usage is counted whatever the AI call did
AiReturn_AlwaysIncrement(r, outcome) ==
    IF r.tid # NoId THEN [r EXCEPT !.pc = "increment", !.ai = outcome]
    ELSE Respond([r EXCEPT !.ai = outcome], 200, "")

\* solve, lines 354-383: the AI call returns
AiReturn(r, outcome) ==
    IF outcome # "ok" THEN Respond([r EXCEPT !.ai = outcome], 500, "AI API error")
    ELSE IF r.tid # NoId THEN [r EXCEPT !.pc = "increment", !.ai = outcome]
    ELSE Respond([r EXCEPT !.ai = outcome], 200, "")

AiCall(p, outcome) ==
    /\ req[p].pc = "ai"
    /\ outcome \in AiOutcomes(config)
    /\ req' = [req EXCEPT ![p] = AiReturn(@, outcome)]
    /\ UNCHANGED <<config, clock, users, proSeen, peak, seq, val>>

\* solve, lines 369 / 382: await increment_usage(req.telegram_id)
IncrementUsage(p) ==
    /\ req[p].pc = "increment"
    /\ BelowCap(users, req[p].tid)
    /\ users' = increment_usage(users, req[p].tid)
    /\ req' = [req EXCEPT ![p] =
                 Respond([@ EXCEPT !.increments =
                              IF SelectRows(users, req[p].tid) # {} THEN @ + 1 ELSE @],
                         200, "")]
    /\ UNCHANGED <<config, clock, proSeen, peak, seq, val>>

\* the ways a store statement fails: the connection or the SQLite call
\* raises, the remote call times out, the remote answers with a status
\* outside 2xx, or with a result of type "error"
StoreOutcomes == {"io_error", "timeout", "non_2xx", "error_result"}

\* variant: a failed statement is answered like an exhausted quota
StoreFailure_AsLimit(r, outcome) ==
    [AfterLimits(r, [allowed |-> FALSE, remaining |-> 0, unlimited |-> FALSE,
                     reason |-> "limit"]) EXCEPT !.failed = outcome]

\* the exception of a failed statement leaves check_can_solve, increment_usage
\* and solve uncaught: the request is answered 500
StoreFailure(r, outcome) ==
    [Respond(r, 500, "Internal Server Error") EXCEPT !.failed = outcome]

\* the store statement the request is about to run fails
StoreFails(p, outcome) ==
    /\ req[p].pc \in {"select", "insert", "reselect", "reset", "increment"}
    /\ req' = [req EXCEPT ![p] = StoreFailure(@, outcome)]
    /\ UNCHANGED <<config, clock, users, proSeen, peak, seq, val>>

(***************************************************************************)
(* Admin endpoints: _require_admin, then one statement.                    *)
(***************************************************************************)
\* variant: with no ADMIN_SECRET configured every secret passes
RequireAdmin_OpenWhenUnset(cfg, secret) ==
    IF cfg.ADMIN_SECRET = "" THEN 0
    ELSE IF secret # cfg.ADMIN_SECRET THEN 403
    ELSE 0

\* _require_admin: 0 when it passes, else the status it raises
RequireAdmin(cfg, secret) ==
    IF cfg.ADMIN_SECRET = "" THEN 500
    ELSE IF secret # cfg.ADMIN_SECRET THEN 403
    ELSE 0

Secrets == {"", AdminSecretValue, "guess"}

AdminSetPro(telegram_id, value, secret) ==
    /\ RequireAdmin(config, secret) = 0
    /\ users' = set_user_pro(users, telegram_id, value)
    /\ proSeen' = proSeen \cup ProIds(users')
    /\ UNCHANGED <<config, clock, req, peak, seq, val>>

AdminSetBan(telegram_id, value, secret) ==
    /\ RequireAdmin(config, secret) = 0
    /\ users' = set_user_banned(users, telegram_id, value)
    /\ UNCHANGED <<config, clock, req, proSeen, peak, seq, val>>

AdminResetRequests(telegram_id, secret) ==
    /\ RequireAdmin(config, secret) = 0
    /\ users' = reset_user_requests(users, telegram_id, clock)
    /\ UNCHANGED <<config, clock, req, proSeen, peak, seq, val>>

\* time passes
Tick(t) ==
    /\ t > clock
    /\ clock' = t
    /\ UNCHANGED <<config, users, req, proSeen, peak, seq, val>>

(***************************************************************************)
(* Spec: concurrent requests.                                              *)
(***************************************************************************)
NoSeq == [op |-> "none", id |-> NoId, at |-> 0, before |-> <<>>, user |-> <<>>,
          limits |-> <<>>, calls |-> 0, fresh |-> FALSE]
NoVal == [init_data |-> NoInitData, signer |-> "",
          signed |-> Fields(Absent, Absent, Absent), result |-> <<>>]

\* the table a run starts from: empty, or identity 1 registered at Epoch with
\* some requests already counted (none, one below the limit, the limit)
SeedUsed == {0, FREE_LIMIT - 1, FREE_LIMIT}
SeedTables ==
    {{}} \cup {{[NewRow(1, "", "", Epoch) EXCEPT !.requests_used = u]} : u \in SeedUsed}

Init ==
    /\ config \in Configs
    /\ clock = Epoch
    /\ users \in SeedTables
    /\ req = [p \in Procs |-> IdleReq]
    /\ proSeen = {}
    /\ peak = [id \in Ids |-> 0]
    /\ seq = NoSeq
    /\ val = NoVal

Next ==
    \/ \E p \in Procs, telegram_id \in Ids \cup {NoId}, init_data \in SolveInitData,
          has_content \in BOOLEAN : SolveStart(p, telegram_id, init_data, has_content)
    \/ \E p \in Procs : SelectUser(p)
    \/ \E p \in Procs : InsertNewUser(p)
    \/ \E p \in Procs : ReselectUser(p)
    \/ \E p \in Procs : Decide(p)
    \/ \E p \in Procs : ResetPeriod(p)
    \/ \E p \in Procs, outcome \in {"ok", "raise", "non200"} : AiCall(p, outcome)
    \/ \E p \in Procs : IncrementUsage(p)
    \/ \E telegram_id \in Ids, value \in BOOLEAN, secret \in Secrets :
          AdminSetPro(telegram_id, value, secret)
    \/ \E telegram_id \in Ids, value \in BOOLEAN, secret \in Secrets :
          AdminSetBan(telegram_id, value, secret)
    \/ \E telegram_id \in Ids, secret \in Secrets : AdminResetRequests(telegram_id, secret)
    \/ \E t \in Instants : Tick(t)

Spec == Init /\ [][Next]_vars

(***************************************************************************)
(* SpecSeq: the database.py functions called one after another.  seq holds *)
(* the last call: op, id, at (the clock of the call), before (the row of   *)
(* id before the call), user and limits (what it returned), and two        *)
(* histories: fresh (the row was created in this run and neither an admin  *)
(* statement nor a period reset has touched it) and, while fresh, calls    *)
(* (the increment_usage calls made on the row since it was created).       *)
(***************************************************************************)
SeqInstants ==
    {Epoch + o : o \in {0, SecondsPerDay, FREE_COOLDOWN_DAYS * SecondsPerDay - 1,
                        FREE_COOLDOWN_DAYS * SecondsPerDay,
                        (FREE_COOLDOWN_DAYS + 1) * SecondsPerDay}}

Names == {""}

Called(op, telegram_id, before, user, limits, calls, fresh) ==
    [op |-> op, id |-> telegram_id, at |-> clock, before |-> before, user |-> user,
     limits |-> limits, calls |-> IF fresh THEN calls ELSE 0, fresh |-> fresh]

SeqGetOrCreateUser(telegram_id, username, first_name) ==
    LET g == get_or_create_user(users, telegram_id, username, first_name, clock)
        before == FetchOne(users, telegram_id)
    IN  /\ users' = g.db
        /\ seq' = Called("get_or_create_user", telegram_id, before, <<g.user>>, <<>>,
                         IF before = <<>> THEN 0 ELSE seq.calls,
                         IF before = <<>> THEN TRUE ELSE seq.fresh)
        /\ UNCHANGED <<config, clock, req, proSeen, peak, val>>

SeqCheckCanSolve(telegram_id) ==
    LET c == check_can_solve(users, telegram_id, clock)
        before == FetchOne(users, telegram_id)
    IN  /\ users' = c.db
        /\ seq' = Called("check_can_solve", telegram_id, before, <<>>, <<c.limits>>,
                         IF before = <<>> THEN 0 ELSE seq.calls,
                         IF before = <<>> THEN TRUE
                         ELSE seq.fresh /\ Branch(before[1], clock) # "reset")
        /\ UNCHANGED <<config, clock, req, proSeen, peak, val>>

SeqIncrementUsage(telegram_id) ==
    LET before == FetchOne(users, telegram_id)
    IN  /\ BelowCap(users, telegram_id)
        /\ users' = increment_usage(users, telegram_id)
        /\ seq' = Called("increment_usage", telegram_id, before, <<>>, <<>>,
                         IF before = <<>> THEN seq.calls ELSE seq.calls + 1, seq.fresh)
        /\ UNCHANGED <<config, clock, req, proSeen, peak, val>>

SeqSetUserPro(telegram_id, is_pro) ==
    /\ users' = set_user_pro(users, telegram_id, is_pro)
    /\ seq' = Called("set_user_pro", telegram_id, FetchOne(users, telegram_id), <<>>,
                     <<>>, seq.calls, FALSE)
    /\ proSeen' = proSeen \cup ProIds(users')
    /\ UNCHANGED <<config, clock, req, peak, val>>

SeqSetUserBanned(telegram_id, is_banned) ==
    /\ users' = set_user_banned(users, telegram_id, is_banned)
    /\ seq' = Called("set_user_banned", telegram_id, FetchOne(users, telegram_id), <<>>,
                     <<>>, seq.calls, FALSE)
    /\ UNCHANGED <<config, clock, req, proSeen, peak, val>>

SeqResetUserRequests(telegram_id) ==
    /\ users' = reset_user_requests(users, telegram_id, clock)
    /\ seq' = Called("reset_user_requests", telegram_id, FetchOne(users, telegram_id),
                     <<>>, <<>>, seq.calls, FALSE)
    /\ UNCHANGED <<config, clock, req, proSeen, peak, val>>

DefaultConfig ==
    [TELEGRAM_BOT_TOKEN |-> BotToken, ADMIN_SECRET |-> AdminSecretValue,
     onlysq_v2 |-> FALSE, client |-> TRUE]

InitSeq ==
    /\ config = DefaultConfig
    /\ clock = Epoch
    /\ users = {}
    /\ req = [p \in Procs |-> IdleReq]
    /\ proSeen = {}
    /\ peak = [id \in Ids |-> 0]
    /\ seq = [NoSeq EXCEPT !.at = Epoch]
    /\ val = NoVal

NextSeq ==
    \/ \E telegram_id \in Ids, username \in Names, first_name \in Names :
          SeqGetOrCreateUser(telegram_id, username, first_name)
    \/ \E telegram_id \in Ids : SeqCheckCanSolve(telegram_id)
    \/ \E telegram_id \in Ids : SeqIncrementUsage(telegram_id)
    \/ \E telegram_id \in Ids, is_pro \in BOOLEAN : SeqSetUserPro(telegram_id, is_pro)
    \/ \E telegram_id \in Ids, is_banned \in BOOLEAN :
          SeqSetUserBanned(telegram_id, is_banned)
    \/ \E telegram_id \in Ids : SeqResetUserRequests(telegram_id)
    \/ \E t \in SeqInstants : Tick(t)

SpecSeq == InitSeq /\ [][NextSeq]_vars

(***************************************************************************)
(* SpecValidate: validate_init_data applied to one payload.  val holds the *)
(* payload, how its hash was made (signer, signed: the token and the       *)
(* fields that were signed) and the result.                                *)
(***************************************************************************)
ValInstants == {Epoch + o : o \in {0, INIT_DATA_EXPIRY - 1, INIT_DATA_EXPIRY,
                                   INIT_DATA_EXPIRY + 1}}

AuthDateTexts == {Absent, Text(1), IntText(Epoch), IntText(Epoch + 1)}
QueryIdTexts == {Absent, Text(1)}
UserTexts == {Absent, Blank, JsonNoId, JsonObject(1), JsonObject(2), Malformed}

FieldSets ==
    {Fields(a, q, u) : a \in AuthDateTexts, q \in QueryIdTexts, u \in UserTexts}

\* the fields a sender can put in the header: a value may hold an encoded
\* newline
SentFieldSets ==
    {Fields(a, q, u) : a \in AuthDateTexts, q \in QueryIdTexts \cup {Folded(1)},
                       u \in UserTexts}

\* every payload: any fields, with no hash, an empty hash, or the hash some
\* token holder made for some fields
ValInputs ==
    {[init_data |-> NoInitData, signer |-> "", signed |-> Fields(Absent, Absent, Absent),
      result |-> <<>>]}
    \cup {[init_data |-> InitData(h, f), signer |-> "",
           signed |-> Fields(Absent, Absent, Absent), result |-> <<>>] :
            h \in {NoHash, EmptyHash}, f \in SentFieldSets}
    \cup {[init_data |-> InitData(PlatformSign(k, g), f), signer |-> k, signed |-> g,
           result |-> <<>>] :
            k \in {BotToken, OtherToken}, g \in FieldSets, f \in SentFieldSets}

Validate ==
    /\ val.result = <<>>
    /\ val' = [val EXCEPT !.result =
                 <<validate_init_data(config.TELEGRAM_BOT_TOKEN, val.init_data, clock)>>]
    /\ UNCHANGED <<config, clock, users, req, proSeen, peak, seq>>

InitValidate ==
    /\ config \in {c \in Configs : c.ADMIN_SECRET = "" /\ ~c.onlysq_v2 /\ c.client}
    /\ clock \in ValInstants
    /\ users = {}
    /\ req = [p \in Procs |-> IdleReq]
    /\ proSeen = {}
    /\ peak = [id \in Ids |-> 0]
    /\ seq = NoSeq
    /\ val \in ValInputs

NextValidate == Validate

SpecValidate == InitValidate /\ [][NextValidate]_vars

(***************************************************************************)
(* SpecEntry: one request to /api/solve or /api/user, from the header to   *)
(* the response.  val holds the request: the endpoint, the payload (and    *)
(* how its hash was made), the telegram_id the caller declares (given =    *)
(* FALSE: /api/solve without telegram_id), the table before the request    *)
(* (db0) and, once the request has entered, what require_telegram          *)
(* returned (result).                                                      *)
(***************************************************************************)
\* api_user, run from call to return: [db, status, detail, user, limits]
api_user(db, cfg, telegram_id, username, first_name, init_data, now) ==
    LET tg == require_telegram(cfg.TELEGRAM_BOT_TOKEN, init_data, now)
        claim == ClaimId(tg.user)
    IN  IF tg.status # 200
            THEN [db |-> db, status |-> tg.status, detail |-> tg.detail,
                  user |-> <<>>, limits |-> <<>>]
        ELSE IF claim # NoId /\ claim # telegram_id
            THEN [db |-> db, status |-> 403, detail |-> "User ID mismatch",
                  user |-> <<>>, limits |-> <<>>]
        ELSE LET g == get_or_create_user(db, telegram_id, username, first_name, now)
                 c == check_can_solve(g.db, telegram_id, now)
             IN  [db |-> c.db, status |-> 200, detail |-> "", user |-> <<g.user>>,
                  limits |-> <<c.limits>>]

DeclaredIds == {NoId, 1, 2}

\* the payloads of SolveInitData, and the payload the platform signed for
\* user 1 with the user pair moved into the value of query_id
EntryInitData ==
    SolveInitData
    \cup {InitData(PlatformSign(BotToken, Fields(IntText(Epoch), Text(1), JsonObject(1))),
                   Fields(IntText(Epoch), Folded(1), Absent))}

EntryInputs ==
    {[init_data |-> d, signer |-> "", signed |-> Fields(Absent, Absent, Absent),
      result |-> <<>>, endpoint |-> e, given |-> g, telegram_id |-> i, db0 |-> db] :
        d \in EntryInitData, e \in {"solve", "user"}, g \in BOOLEAN,
        i \in DeclaredIds, db \in SeedTables}

\* req.telegram_id as solve sees it: None and 0 are both falsy
Declared(v) == IF v.given THEN v.telegram_id ELSE NoId

EnterSolve(has_content) ==
    /\ val.endpoint = "solve"
    /\ val.result = <<>>
    /\ req' = [req EXCEPT ![1] = SolveEnter(req[1], config, Declared(val),
                                            val.init_data, has_content, clock)]
    /\ val' = [val EXCEPT !.result =
                 <<require_telegram(config.TELEGRAM_BOT_TOKEN, val.init_data, clock)>>]
    /\ UNCHANGED <<config, clock, users, proSeen, peak, seq>>

EnterUser ==
    /\ val.endpoint = "user"
    /\ val.result = <<>>
    /\ LET a == api_user(users, config, val.telegram_id, "", "", val.init_data, clock)
       IN  /\ users' = a.db
           /\ req' = [req EXCEPT ![1] =
                        [Respond(@, a.status, a.detail) EXCEPT
                            !.tid = IF a.status = 200 THEN val.telegram_id ELSE NoId,
                            !.user = a.user, !.limits = a.limits]]
    /\ val' = [val EXCEPT !.result =
                 <<require_telegram(config.TELEGRAM_BOT_TOKEN, val.init_data, clock)>>]
    /\ UNCHANGED <<config, clock, proSeen, peak, seq>>

InitEntry ==
    /\ config \in {c \in Configs : c.ADMIN_SECRET = ""}
    /\ clock \in Instants
    /\ val \in {v \in EntryInputs : v.endpoint = "user" => v.given}
    /\ users = val.db0
    /\ req = [p \in Procs |-> IdleReq]
    /\ proSeen = {}
    /\ peak = [id \in Ids |-> 0]
    /\ seq = NoSeq

NextEntry ==
    \/ \E has_content \in BOOLEAN : EnterSolve(has_content)
    \/ EnterUser
    \/ SelectUser(1)
    \/ InsertNewUser(1)
    \/ ReselectUser(1)
    \/ Decide(1)
    \/ ResetPeriod(1)
    \/ \E outcome \in {"ok", "raise", "non200"} : AiCall(1, outcome)
    \/ IncrementUsage(1)

SpecEntry == InitEntry /\ [][NextEntry]_vars

(***************************************************************************)
(* SpecProfile: get_or_create_user called one call after another on a      *)
(* table with or without a row of the identity.  seq holds the last call   *)
(* with its arguments and the table before it (db0).                       *)
(***************************************************************************)
ProfileNames == {"", "ann", "bob"}

ProfileTables ==
    {{}} \cup {{[NewRow(1, u, f, Epoch) EXCEPT !.is_pro = p, !.is_banned = b,
                                               !.requests_used = n]} :
                 u \in ProfileNames, f \in ProfileNames, p \in {0, 1}, b \in {0, 1},
                 n \in {0, FREE_LIMIT}}

ProfileGetOrCreateUser(telegram_id, username, first_name) ==
    LET g == get_or_create_user(users, telegram_id, username, first_name, clock)
    IN  /\ users' = g.db
        /\ seq' = [op |-> "get_or_create_user", id |-> telegram_id, at |-> clock,
                   before |-> FetchOne(users, telegram_id), user |-> <<g.user>>,
                   limits |-> <<>>, calls |-> 0, fresh |-> FALSE,
                   username |-> username, first_name |-> first_name, db0 |-> users]
        /\ UNCHANGED <<config, clock, req, proSeen, peak, val>>

InitProfile ==
    /\ config = DefaultConfig
    /\ clock = Epoch
    /\ users \in ProfileTables
    /\ req = [p \in Procs |-> IdleReq]
    /\ proSeen = {}
    /\ peak = [id \in Ids |-> 0]
    /\ seq = NoSeq
    /\ val = NoVal

NextProfile ==
    \/ \E telegram_id \in Ids, username \in ProfileNames, first_name \in ProfileNames :
          ProfileGetOrCreateUser(telegram_id, username, first_name)
    \/ \E t \in Instants : Tick(t)

SpecProfile == InitProfile /\ [][NextProfile]_vars

(***************************************************************************)
(* SpecProfileRace: get_or_create_user calls for an identity that has a    *)
(* row, in flight at the same time and interleaved statement by statement. *)
(* req[p] holds the call in slot p: its position (pc), its arguments, the  *)
(* row its SELECT fetched and the row it returned (user).                  *)
(***************************************************************************)
\* lines 201-203: the SELECT and fetchone; with no name supplied the row is
\* returned as it is
ProfileSelect(p, telegram_id, username, first_name) ==
    /\ req[p].pc = "idle"
    /\ FetchOne(users, telegram_id) # <<>>
    /\ req' = [req EXCEPT ![p] =
                 [pc |-> IF username # "" \/ first_name # "" THEN "update" ELSE "done",
                  tid |-> telegram_id, username |-> username, first_name |-> first_name,
                  row |-> FetchOne(users, telegram_id),
                  user |-> IF username # "" \/ first_name # "" THEN <<>>
                           ELSE FetchOne(users, telegram_id)]]
    /\ UNCHANGED <<config, clock, users, proSeen, peak, seq, val>>

\* lines 205-209: the UPDATE and commit
ProfileUpdate(p) ==
    /\ req[p].pc = "update"
    /\ users' = UpdateProfileStmt(users, req[p].tid, req[p].username,
                                  req[p].first_name, req[p].row[1])
    /\ req' = [req EXCEPT ![p].pc = "reselect"]
    /\ UNCHANGED <<config, clock, proSeen, peak, seq, val>>

\* lines 210-212: the SELECT after the UPDATE, and the return
ProfileReselect(p) ==
    /\ req[p].pc = "reselect"
    /\ req' = [req EXCEPT ![p].pc = "done", ![p].user = FetchOne(users, req[p].tid)]
    /\ UNCHANGED <<config, clock, users, proSeen, peak, seq, val>>

InitProfileRace ==
    /\ config = DefaultConfig
    /\ clock = Epoch
    /\ users \in ProfileTables \ {{}}
    /\ req = [p \in Procs |-> [pc |-> "idle", tid |-> NoId, username |-> "",
                                first_name |-> "", row |-> <<>>, user |-> <<>>]]
    /\ proSeen = {}
    /\ peak = [id \in Ids |-> 0]
    /\ seq = NoSeq
    /\ val = NoVal

NextProfileRace ==
    \/ \E p \in Procs, telegram_id \in Ids, username \in ProfileNames,
          first_name \in ProfileNames : ProfileSelect(p, telegram_id, username, first_name)
    \/ \E p \in Procs : ProfileUpdate(p)
    \/ \E p \in Procs : ProfileReselect(p)

SpecProfileRace == InitProfileRace /\ [][NextProfileRace]_vars

(***************************************************************************)
(* SpecScenario: one identity is created at the start of the run, at clock *)
(* 0 or at Epoch; then increment_usage and check_can_solve are called, one *)
(* call after another, at the start, one day and eight days later.         *)
(***************************************************************************)
ScenarioId == 42
ScenarioStarts == {0, Epoch}
ScenarioInstants ==
    {t0 + d * SecondsPerDay : t0 \in ScenarioStarts, d \in {1, FREE_COOLDOWN_DAYS + 1}}

InitScenario ==
    /\ config = DefaultConfig
    /\ clock \in ScenarioStarts
    /\ users = {}
    /\ req = [p \in Procs |-> IdleReq]
    /\ proSeen = {}
    /\ peak = [id \in Ids |-> 0]
    /\ seq = [NoSeq EXCEPT !.at = clock]
    /\ val = NoVal

NextScenario ==
    \/ SeqGetOrCreateUser(ScenarioId, "", "")
    \/ SeqIncrementUsage(ScenarioId)
    \/ SeqCheckCanSolve(ScenarioId)
    \/ \E t \in ScenarioInstants : Tick(t)

SpecScenario == InitScenario /\ [][NextScenario]_vars

(***************************************************************************)
(* SpecCount: concurrent /api/solve requests on a table that holds the row *)
(* of the identity, with no admin statement and the clock inside the first *)
(* period, so that nothing resets the row.  seq.before keeps the row as it *)
(* was at the start.                                                       *)
(***************************************************************************)
CountTables ==
    {{[NewRow(1, "", "", Epoch) EXCEPT !.requests_used = u, !.is_pro = p]} :
        u \in {0, FREE_LIMIT - 1}, p \in {0, 1}}

InitCount ==
    /\ config \in {c \in Configs : c.ADMIN_SECRET = ""}
    /\ clock = Epoch
    /\ users \in CountTables
    /\ req = [p \in Procs |-> IdleReq]
    /\ proSeen = {}
    /\ peak = [id \in Ids |-> 0]
    /\ seq = [NoSeq EXCEPT !.before = FetchOne(users, 1), !.id = 1, !.at = clock]
    /\ val = NoVal

NextCount ==
    \/ \E p \in Procs, telegram_id \in Ids \cup {NoId}, init_data \in SolveInitData,
          has_content \in BOOLEAN : SolveStart(p, telegram_id, init_data, has_content)
    \/ \E p \in Procs : SelectUser(p)
    \/ \E p \in Procs : Decide(p)
    \/ \E p \in Procs, outcome \in {"ok", "raise", "non200"} : AiCall(p, outcome)
    \/ \E p \in Procs : IncrementUsage(p)

SpecCount == InitCount /\ [][NextCount]_vars

(***************************************************************************)
(* SpecSerial: /api/solve requests for one identity, none ever pro or      *)
(* banned, handled strictly one after another: check_can_solve of a        *)
(* request runs from call to return, then its AI call and increment_usage, *)
(* before the next request starts.  seq holds the position of the request  *)
(* under way (pc), the decision of the last check_can_solve (limits), and  *)
(* two histories of the current period of the row: granted (requests       *)
(* check_can_solve allowed) and fulfilled (requests answered and counted). *)
(***************************************************************************)
\* solve, lines 290-295: await check_can_solve(req.telegram_id)
SerialEvaluate(telegram_id) ==
    LET c == check_can_solve(users, telegram_id, clock)
        before == FetchOne(users, telegram_id)
        renewed == before = <<>> \/ Branch(before[1], clock) = "reset"
    IN  /\ seq.pc = "idle"
        /\ seq.granted < MaxUsed
        /\ users' = c.db
        /\ seq' = [pc |-> IF c.limits.allowed THEN "ai" ELSE "idle",
                   id |-> telegram_id, limits |-> <<c.limits>>,
                   granted |-> (IF renewed THEN 0 ELSE seq.granted)
                               + (IF c.limits.allowed THEN 1 ELSE 0),
                   fulfilled |-> IF renewed THEN 0 ELSE seq.fulfilled]
        /\ UNCHANGED <<config, clock, req, proSeen, peak, val>>

\* solve, lines 354-383: the AI call ends, then await increment_usage
SerialAnswer(outcome) ==
    /\ seq.pc = "ai"
    /\ outcome \in AiOutcomes(config)
    /\ users' = IF outcome = "ok" THEN increment_usage(users, seq.id) ELSE users
    /\ seq' = [seq EXCEPT !.pc = "idle",
                          !.fulfilled = IF outcome = "ok" THEN @ + 1 ELSE @]
    /\ UNCHANGED <<config, clock, req, proSeen, peak, val>>

InitSerial ==
    /\ config = DefaultConfig
    /\ clock = Epoch
    /\ users = {}
    /\ req = [p \in Procs |-> IdleReq]
    /\ proSeen = {}
    /\ peak = [id \in Ids |-> 0]
    /\ seq = [pc |-> "idle", id |-> NoId, limits |-> <<>>, granted |-> 0, fulfilled |-> 0]
    /\ val = NoVal

NextSerial ==
    \/ \E telegram_id \in Ids : SerialEvaluate(telegram_id)
    \/ \E outcome \in {"ok", "raise"} : SerialAnswer(outcome)
    \/ \E t \in SeqInstants : Tick(t)

SpecSerial == InitSerial /\ [][NextSerial]_vars

(***************************************************************************)
(* SpecStore: concurrent /api/solve requests whose store statements may    *)
(* fail, at a fixed clock: the instant the table was seeded, or the        *)
(* instant the cooldown of the seeded row has elapsed.                     *)
(***************************************************************************)
InitStore ==
    /\ config = DefaultConfig
    /\ clock \in Instants
    /\ users \in SeedTables
    /\ req = [p \in Procs |-> IdleReq]
    /\ proSeen = {}
    /\ peak = [id \in Ids |-> 0]
    /\ seq = NoSeq
    /\ val = NoVal

NextStore ==
    \/ \E p \in Procs, telegram_id \in Ids, init_data \in SolveInitData :
          SolveStart(p, telegram_id, init_data, TRUE)
    \/ \E p \in Procs : SelectUser(p)
    \/ \E p \in Procs : InsertNewUser(p)
    \/ \E p \in Procs : ReselectUser(p)
    \/ \E p \in Procs : Decide(p)
    \/ \E p \in Procs : ResetPeriod(p)
    \/ \E p \in Procs, outcome \in {"ok", "raise"} : AiCall(p, outcome)
    \/ \E p \in Procs : IncrementUsage(p)
    \/ \E p \in Procs, outcome \in StoreOutcomes : StoreFails(p, outcome)

SpecStore == InitStore /\ [][NextStore]_vars

(***************************************************************************)
(* The Turso backend.  Every call is one SQL statement sent by             *)
(* _turso_execute: the arguments go out as typed values whose value is     *)
(* str(a); the rows come back as lists of typed cells, an integer as the   *)
(* text of its decimal numeral, a float as a number; _turso_row_to_dict    *)
(* turns the cells of a row into the dict the callers use.  The remote     *)
(* server runs the statement (the same SQL text as on the SQLite path) on  *)
(* its table.                                                              *)
(***************************************************************************)
\* _turso_execute, lines 37-41: the argument list of a statement
IntegerArg(n) == [type |-> "integer", value |-> IntText(n)]
FloatArg(x) == [type |-> "float", value |-> IntText(x)]
TextArg(t) == [type |-> "text", value |-> [kind |-> "str", n |-> 0, s |-> t]]

\* the server: the SQL value of an argument
ArgValue(arg) == IF arg.type = "text" THEN arg.value.s ELSE arg.value.n

\* the server: the cells of a row of users
IntegerCell(n) == [type |-> "integer", value |-> IntText(n)]
FloatCell(x) == [type |-> "float", value |-> [kind |-> "number", n |-> x]]
TextCell(t) == [type |-> "text", value |-> [kind |-> "str", n |-> 0, s |-> t]]

RowCells(r) ==
    [telegram_id |-> IntegerCell(r.telegram_id), username |-> TextCell(r.username),
     first_name |-> TextCell(r.first_name), is_banned |-> IntegerCell(r.is_banned),
     is_pro |-> IntegerCell(r.is_pro), requests_used |-> IntegerCell(r.requests_used),
     period_start |-> FloatCell(r.period_start), created_at |-> FloatCell(r.created_at)]

\* int(val) if val is not None else 0; float(val) if val is not None else 0.0
CellNumber(cell) == IF cell.type = "null" THEN 0 ELSE cell.value.n

\* variant: is_banned and is_pro read from each other's column
turso_row_to_dict_Swapped(cells) ==
    [telegram_id |-> CellNumber(cells.telegram_id), username |-> cells.username.value.s,
     first_name |-> cells.first_name.value.s, is_banned |-> CellNumber(cells.is_pro),
     is_pro |-> CellNumber(cells.is_banned),
     requests_used |-> CellNumber(cells.requests_used),
     period_start |-> CellNumber(cells.period_start),
     created_at |-> CellNumber(cells.created_at)]

\* _turso_row_to_dict
turso_row_to_dict(cells) ==
    [telegram_id |-> CellNumber(cells.telegram_id), username |-> cells.username.value.s,
     first_name |-> cells.first_name.value.s, is_banned |-> CellNumber(cells.is_banned),
     is_pro |-> CellNumber(cells.is_pro),
     requests_used |-> CellNumber(cells.requests_used),
     period_start |-> CellNumber(cells.period_start),
     created_at |-> CellNumber(cells.created_at)]

\* rs["rows"] of SELECT * FROM users WHERE telegram_id = ?
TursoSelect(db, id_arg) == FetchOne(db, ArgValue(id_arg))

\* _turso_get_or_create_user
turso_get_or_create_user(db, telegram_id, username, first_name, now) ==
    LET rows == TursoSelect(db, IntegerArg(telegram_id))
    IN  IF rows # <<>>
        THEN LET user == turso_row_to_dict(RowCells(rows[1]))
             IN  IF username # "" \/ first_name # ""
                 THEN LET db1 == UpdateProfileStmt(
                                     db, ArgValue(IntegerArg(telegram_id)),
                                     ArgValue(TextArg(IF username # "" THEN username
                                                      ELSE user.username)),
                                     ArgValue(TextArg(IF first_name # "" THEN first_name
                                                      ELSE user.first_name)),
                                     rows[1])
                          rs == TursoSelect(db1, IntegerArg(telegram_id))
                      IN  [db |-> db1, user |-> turso_row_to_dict(RowCells(rs[1]))]
                 ELSE [db |-> db, user |-> user]
        ELSE LET db1 == InsertUser(db, ArgValue(IntegerArg(telegram_id)),
                                   ArgValue(TextArg(username)),
                                   ArgValue(TextArg(first_name)), ArgValue(FloatArg(now)))
                 rs == TursoSelect(db1, IntegerArg(telegram_id))
             IN  [db |-> db1, user |-> turso_row_to_dict(RowCells(rs[1]))]

\* check_can_solve with _use_turso
turso_check_can_solve(db, telegram_id, now) ==
    LET g == turso_get_or_create_user(db, telegram_id, "", "", now)
    IN  [db |-> IF Branch(g.user, now) = "reset"
                THEN ResetStmt(g.db, ArgValue(IntegerArg(telegram_id)),
                               ArgValue(FloatArg(now)))
                ELSE g.db,
         limits |-> BranchLimits(g.user, now)]

\* SELECT * FROM users ORDER BY created_at DESC, as the server orders it
RECURSIVE OrderedRows(_)
OrderedRows(db) ==
    IF db = {} THEN <<>>
    ELSE LET first == CHOOSE r \in db :
                        \A q \in db : \/ q.created_at < r.created_at
                                      \/ /\ q.created_at = r.created_at
                                         /\ q.telegram_id >= r.telegram_id
         IN  <<first>> \o OrderedRows(db \ {first})

\* get_all_users, on SQLite and on Turso
get_all_users(db) == OrderedRows(db)
turso_get_all_users(db) ==
    [i \in 1..Len(OrderedRows(db)) |-> turso_row_to_dict(RowCells(OrderedRows(db)[i]))]

(***************************************************************************)
(* SpecBackends: the database.py functions called one after another under  *)
(* the backend chosen at import time (config.use_turso).  seq holds the    *)
(* last call: its name and arguments, the table before it (db0) and what   *)
(* it returned (ret).                                                      *)
(***************************************************************************)
BackendNames == {"", "ann"}

Call(op, telegram_id, username, first_name, flag) ==
    [op |-> op, id |-> telegram_id, username |-> username, first_name |-> first_name,
     flag |-> flag]

\* a call under a backend: [db, ret]
BackendApply(use_turso, call, db, now) ==
    CASE call.op = "get_or_create_user" ->
            LET g == IF use_turso
                     THEN turso_get_or_create_user(db, call.id, call.username,
                                                   call.first_name, now)
                     ELSE get_or_create_user(db, call.id, call.username,
                                             call.first_name, now)
            IN  [db |-> g.db, ret |-> <<g.user>>]
      [] call.op = "check_can_solve" ->
            LET c == IF use_turso THEN turso_check_can_solve(db, call.id, now)
                     ELSE check_can_solve(db, call.id, now)
            IN  [db |-> c.db, ret |-> <<c.limits>>]
      [] call.op = "increment_usage" ->
            [db |-> IF use_turso
                    THEN IncrementStmt(db, ArgValue(IntegerArg(call.id)))
                    ELSE increment_usage(db, call.id),
             ret |-> <<>>]
      [] call.op = "set_user_pro" ->
            [db |-> IF use_turso
                    THEN {IF r.telegram_id = ArgValue(IntegerArg(call.id))
                             THEN [r EXCEPT !.is_pro =
                                      ArgValue(IntegerArg(IF call.flag THEN 1 ELSE 0))]
                             ELSE r : r \in db}
                    ELSE set_user_pro(db, call.id, call.flag),
             ret |-> <<>>]
      [] call.op = "set_user_banned" ->
            [db |-> IF use_turso
                    THEN {IF r.telegram_id = ArgValue(IntegerArg(call.id))
                             THEN [r EXCEPT !.is_banned =
                                      ArgValue(IntegerArg(IF call.flag THEN 1 ELSE 0))]
                             ELSE r : r \in db}
                    ELSE set_user_banned(db, call.id, call.flag),
             ret |-> <<>>]
      [] call.op = "reset_user_requests" ->
            [db |-> IF use_turso
                    THEN ResetStmt(db, ArgValue(IntegerArg(call.id)),
                                   ArgValue(FloatArg(now)))
                    ELSE reset_user_requests(db, call.id, now),
             ret |-> <<>>]
      [] OTHER ->
            [db |-> db,
             ret |-> IF use_turso THEN turso_get_all_users(db) ELSE get_all_users(db)]

BackendCalls ==
    {Call("get_or_create_user", id, u, f, FALSE) :
        id \in Ids, u \in BackendNames, f \in BackendNames}
    \cup {Call(op, id, "", "", FALSE) :
            op \in {"check_can_solve", "increment_usage", "reset_user_requests"},
            id \in Ids}
    \cup {Call(op, id, "", "", flag) :
            op \in {"set_user_pro", "set_user_banned"}, id \in Ids, flag \in BOOLEAN}
    \cup {Call("get_all_users", NoId, "", "", FALSE)}

BackendCall(call) ==
    /\ call.op = "increment_usage" => BelowCap(users, call.id)
    /\ users' = BackendApply(config.use_turso, call, users, clock).db
    /\ seq' = [call |-> call, at |-> clock, db0 |-> users,
               ret |-> BackendApply(config.use_turso, call, users, clock).ret]
    /\ UNCHANGED <<config, clock, req, proSeen, peak, val>>

InitBackends ==
    /\ config \in {[TELEGRAM_BOT_TOKEN |-> BotToken, ADMIN_SECRET |-> AdminSecretValue,
                     onlysq_v2 |-> FALSE, client |-> TRUE, use_turso |-> b] :
                        b \in BOOLEAN}
    /\ clock = Epoch
    /\ users \in SeedTables
    /\ req = [p \in Procs |-> IdleReq]
    /\ proSeen = {}
    /\ peak = [id \in Ids |-> 0]
    /\ seq = [call |-> Call("none", NoId, "", "", FALSE), at |-> clock, db0 |-> users,
              ret |-> <<>>]
    /\ val = NoVal

NextBackends ==
    \/ \E call \in BackendCalls : BackendCall(call)
    \/ \E t \in Instants : Tick(t)

SpecBackends == InitBackends /\ [][NextBackends]_vars

(***************************************************************************)
(* SpecAdmin: requests to the four admin endpoints, one after another,     *)
(* between calls of get_or_create_user and increment_usage.  seq holds the *)
(* last request: the endpoint (op), the identity, the secret it carried,   *)
(* the table before it (db0) and the response (status, detail, body).      *)
(***************************************************************************)
\* admin_list_users / admin_set_pro / admin_set_ban / admin_reset_requests,
\* run from call to return: [db, status, detail, body]
admin_request(db, cfg, endpoint, telegram_id, value, secret, now) ==
    IF RequireAdmin(cfg, secret) = 500
        THEN [db |-> db, status |-> 500, detail |-> "ADMIN_SECRET not configured",
              body |-> [ok |-> FALSE, users |-> <<>>]]
    ELSE IF RequireAdmin(cfg, secret) = 403
        THEN [db |-> db, status |-> 403, detail |-> "Forbidden",
              body |-> [ok |-> FALSE, users |-> <<>>]]
    ELSE CASE endpoint = "admin_list_users" ->
                [db |-> db, status |-> 200, detail |-> "",
                 body |-> [ok |-> FALSE, users |-> get_all_users(db)]]
           [] endpoint = "admin_set_pro" ->
                [db |-> set_user_pro(db, telegram_id, value), status |-> 200,
                 detail |-> "", body |-> [ok |-> TRUE, users |-> <<>>]]
           [] endpoint = "admin_set_ban" ->
                [db |-> set_user_banned(db, telegram_id, value), status |-> 200,
                 detail |-> "", body |-> [ok |-> TRUE, users |-> <<>>]]
           [] OTHER ->
                [db |-> reset_user_requests(db, telegram_id, now), status |-> 200,
                 detail |-> "", body |-> [ok |-> TRUE, users |-> <<>>]]

AdminEndpoints ==
    {"admin_list_users", "admin_set_pro", "admin_set_ban", "admin_reset_requests"}

AdminRequest(endpoint, telegram_id, value, secret) ==
    LET a == admin_request(users, config, endpoint, telegram_id, value, secret, clock)
    IN  /\ users' = a.db
        /\ seq' = [op |-> endpoint, id |-> telegram_id, at |-> clock,
                   before |-> FetchOne(users, telegram_id), user |-> <<>>,
                   limits |-> <<>>, calls |-> 0, fresh |-> FALSE, secret |-> secret,
                   db0 |-> users, status |-> a.status, detail |-> a.detail,
                   body |-> a.body]
        /\ UNCHANGED <<config, clock, req, proSeen, peak, val>>

InitAdmin ==
    /\ config \in {c \in Configs : c.TELEGRAM_BOT_TOKEN = "" /\ ~c.onlysq_v2 /\ c.client}
    /\ clock = Epoch
    /\ users \in SeedTables
    /\ req = [p \in Procs |-> IdleReq]
    /\ proSeen = {}
    /\ peak = [id \in Ids |-> 0]
    /\ seq = [NoSeq EXCEPT !.at = Epoch]
    /\ val = NoVal

NextAdmin ==
    \/ \E endpoint \in AdminEndpoints, telegram_id \in Ids, value \in BOOLEAN,
          secret \in Secrets : AdminRequest(endpoint, telegram_id, value, secret)
    \/ \E telegram_id \in Ids : SeqGetOrCreateUser(telegram_id, "", "")
    \/ \E telegram_id \in Ids : SeqIncrementUsage(telegram_id)
    \/ \E t \in Instants : Tick(t)

SpecAdmin == InitAdmin /\ [][NextAdmin]_vars

(***************************************************************************)
(* Properties.                                                             *)
(***************************************************************************)
CooldownSeconds == FREE_COOLDOWN_DAYS * SecondsPerDay

\* the last call of SpecSeq was check_can_solve on an existing row
EvaluatedRow == seq.op = "check_can_solve" /\ seq.before # <<>>

DeniedBanned == [allowed |-> FALSE, remaining |-> 0, unlimited |-> FALSE,
                 reason |-> "banned"]
DeniedLimit == [allowed |-> FALSE, remaining |-> 0, unlimited |-> FALSE,
                reason |-> "limit"]
AllowedPro == [allowed |-> TRUE, remaining |-> 0, unlimited |-> TRUE, reason |-> "pro"]
AllowedFree(n) == [allowed |-> TRUE, remaining |-> n, unlimited |-> FALSE,
                   reason |-> "free"]

\* C1 (Spec): an AI call is in progress or has been made for a request only
\* if check_can_solve ran for that request and returned allowed = true.
C1_AiCallOnlyAfterGrant ==
    \A p \in Procs :
        (req[p].pc \in {"ai", "increment"} \/ req[p].ai # "")
            => (req[p].limits # <<>> /\ req[p].limits[1].allowed)

\* C2 (SpecSeq): check_can_solve on a row with is_banned = 1 returns
\* {allowed: false, remaining: 0, reason: banned}, whatever is_pro,
\* requests_used and period_start are.
C2_BannedAlwaysDenied ==
    (EvaluatedRow /\ seq.before[1].is_banned = 1) => seq.limits = <<DeniedBanned>>

C2_Witness ==
    /\ EvaluatedRow
    /\ seq.before[1].is_banned = 1
    /\ seq.before[1].is_pro = 1
    /\ seq.before[1].requests_used > 0
    /\ seq.at - seq.before[1].period_start >= CooldownSeconds
    /\ seq.limits = <<DeniedBanned>>

\* C3 (SpecSeq): check_can_solve on a row with is_pro = 1 and is_banned = 0
\* returns {allowed: true, remaining: unlimited, reason: pro}, also with
\* requests_used at or above the limit and with an old period_start.
C3_ProUnlimited ==
    (EvaluatedRow /\ seq.before[1].is_pro = 1 /\ seq.before[1].is_banned = 0)
        => seq.limits = <<AllowedPro>>

C3_Witness ==
    /\ EvaluatedRow
    /\ seq.before[1].is_pro = 1
    /\ seq.before[1].is_banned = 0
    /\ seq.before[1].requests_used >= FREE_LIMIT
    /\ seq.at - seq.before[1].period_start >= CooldownSeconds
    /\ seq.limits = <<AllowedPro>>

\* C4 (SpecSeq): for an identity created in this run and touched by no admin
\* statement, check_can_solve inside the cooldown window after k
\* increment_usage calls returns {true, 10 - k, free} for k < 10 and
\* {false, 0, limit} for k = 10 (and beyond).
C4_LimitAfterTenRecorded ==
    (/\ seq.op = "check_can_solve"
     /\ seq.fresh
     /\ \A r \in SelectRows(users, seq.id) : seq.at - r.created_at < CooldownSeconds)
        => seq.limits = <<IF seq.calls >= 10 THEN DeniedLimit
                           ELSE AllowedFree(10 - seq.calls)>>

C4_Witness ==
    /\ seq.op = "check_can_solve"
    /\ seq.fresh
    /\ seq.calls = 10
    /\ \A r \in SelectRows(users, seq.id) : seq.at - r.created_at < CooldownSeconds
    /\ seq.limits = <<DeniedLimit>>

C6_FreeDecision ==
    (/\ seq.op = "check_can_solve"
     /\ seq.before # <<>> => (seq.before[1].is_pro = 0 /\ seq.before[1].is_banned = 0))
        => LET used == IF seq.before = <<>> THEN 0
                       ELSE IF seq.at - seq.before[1].period_start >= CooldownSeconds
                            THEN 0
                       ELSE seq.before[1].requests_used
               remaining == IF 10 - used > 0 THEN 10 - used ELSE 0
           IN  /\ seq.limits[1].remaining \in 0..10
               /\ seq.limits[1].remaining = remaining
               /\ (remaining = 0) <=> (seq.limits = <<DeniedLimit>>)
               /\ (remaining # 0) <=> (seq.limits = <<AllowedFree(remaining)>>)

C6_Witness ==
    /\ EvaluatedRow
    /\ seq.before[1].is_pro = 0
    /\ seq.before[1].is_banned = 0
    /\ seq.before[1].requests_used > FREE_LIMIT
    /\ seq.at - seq.before[1].period_start < CooldownSeconds
    /\ seq.limits = <<DeniedLimit>>

\* C7 (Spec): for an identity that has never been pro, requests_used exceeds
\* the free limit by at most the number of solve requests for that identity
\* that were in flight at the same time.
C7_OverrunAtMostInFlight ==
    \A r \in users :
        r.telegram_id \notin proSeen
            => \/ r.requests_used <= FREE_LIMIT
               \/ r.requests_used - FREE_LIMIT <= peak[r.telegram_id]

\* two requests both read remaining > 0, both were counted, and the counter
\* ends above the limit
C7_Witness ==
    \E r \in users :
        /\ r.telegram_id \notin proSeen
        /\ r.requests_used > FREE_LIMIT
        /\ \A p \in Procs :
              /\ req[p].pc = "done"
              /\ req[p].tid = r.telegram_id
              /\ req[p].increments = 1
              /\ req[p].limits # <<>>
              /\ req[p].limits[1].reason = "free"

\* C8 as stated (Spec): a request that was rejected or whose AI call failed
\* has left requests_used unchanged.
C8_FailedRequestLeavesUsed ==
    \A p \in Procs :
        (req[p].pc = "done" /\ req[p].status # 200)
            => (req[p].increments = 0 /\ ~req[p].zeroed)

\* C8 as amended (Spec): increment_usage runs at most once per request, and
\* only after check_can_solve allowed the request and the AI call succeeded;
\* a request that was rejected or whose AI call failed never increments.
C8_IncrementOnlyAfterSuccess ==
    \A p \in Procs :
        /\ req[p].increments <= 1
        /\ (req[p].pc = "increment" \/ req[p].increments > 0)
              => /\ req[p].ai = "ok"
                 /\ req[p].limits # <<>>
                 /\ req[p].limits[1].allowed
        /\ (req[p].pc = "done" /\ req[p].status # 200) => req[p].increments = 0

C8_Witness ==
    \E p, q \in Procs :
        /\ req[p].pc = "done" /\ req[p].ai = "non200" /\ req[p].status = 500
        /\ req[p].limits # <<>> /\ req[p].limits[1].allowed /\ req[p].increments = 0
        /\ req[q].pc = "done" /\ req[q].ai = "ok" /\ req[q].increments = 1

\* the hash of the payload was made under the configured token for the
\* check-string of the fields the payload carries
HashIsOfCheckString ==
    /\ val.init_data.present
    /\ val.init_data.hash.kind = "hex"
    /\ config.TELEGRAM_BOT_TOKEN # ""
    /\ val.signer = config.TELEGRAM_BOT_TOKEN
    /\ PlatformCheckString(val.signed) = PlatformCheckString(val.init_data.fields)

\* the payload is the one the platform signed under the configured token
CorrectlySigned == HashIsOfCheckString /\ val.signed = val.init_data.fields

Validated == val.result # <<>>
Accepted == Validated /\ val.result[1] # NoneResult

\* C9 (SpecValidate): with a configured token, validate_init_data accepts a
\* payload only if its hash is the HMAC, under the key derived from that
\* token, of the check-string of the payload (key=value of all keys but
\* hash, sorted, joined by newline): a payload whose check-string differs
\* from the signed one, or whose hash was made under another token, is
\* rejected.
C9_AcceptOnlySigned == Accepted => HashIsOfCheckString

\* a payload signed under the configured token whose user value was altered
\* afterwards, not expired, is rejected
C9_Witness ==
    /\ Validated
    /\ val.result[1] = NoneResult
    /\ val.signer = config.TELEGRAM_BOT_TOKEN
    /\ val.signed["user"] = JsonObject(1)
    /\ val.init_data.fields = [val.signed EXCEPT !["user"] = JsonObject(2)]
    /\ val.signed["auth_date"] = IntText(clock)

WellFormedUser == val.init_data.fields["user"].kind # "malformed"

\* C10 (SpecValidate): a correctly signed payload is rejected when
\* now - auth_date > 86400 and when it has no auth_date (read as 0); one
\* with now - auth_date = 86399 (and a user field that parses) is accepted.
C10_ExpiryBoundary ==
    (Validated /\ CorrectlySigned)
        => LET a == val.init_data.fields["auth_date"]
           IN  /\ (a.kind = "int" /\ clock - a.n > 86400) => val.result[1] = NoneResult
               /\ (a.kind = "int" /\ clock - a.n = 86399 /\ WellFormedUser)
                     => val.result[1] # NoneResult
               /\ a.kind = "absent" => val.result[1] = NoneResult

C10_Witness ==
    /\ Validated
    /\ CorrectlySigned
    /\ val.init_data.fields["auth_date"].kind = "int"
    /\ clock - val.init_data.fields["auth_date"].n = 86399
    /\ val.result[1] = DictResult(TRUE, 1)

\* the request of SpecEntry has entered its handler
Entered == val.result # <<>>
AuthDetails == {"Missing Telegram authorization", "Invalid Telegram authorization",
                "User ID mismatch"}

\* C11 (SpecEntry): with no TELEGRAM_BOT_TOKEN configured, every request,
\* whatever its payload, passes require_telegram with the empty claim {} and
\* goes on under the telegram_id the caller declared: it is never answered
\* with an authorization error.
C11_OpenModeBypass ==
    (Entered /\ config.TELEGRAM_BOT_TOKEN = "")
        => /\ val.result[1] = [status |-> 200, detail |-> "", user |-> EmptyDict]
           /\ req[1].detail \notin AuthDetails
           /\ req[1].status # 403 \/ req[1].detail = "banned"
           /\ val.endpoint = "user" => (req[1].status = 200 /\ req[1].tid = val.telegram_id)
           /\ (val.endpoint = "solve" /\ req[1].status \notin {400, 500})
                 => req[1].tid = Declared(val)

\* a payload signed under some other token, declared id 1, served and counted
C11_Witness ==
    /\ Entered
    /\ config.TELEGRAM_BOT_TOKEN = ""
    /\ val.init_data.present
    /\ val.init_data.hash = PlatformSign(OtherToken, val.init_data.fields)
    /\ val.endpoint = "solve"
    /\ req[1].tid = 1
    /\ req[1].pc = "done"
    /\ req[1].increments = 1

\* C12 (SpecEntry): what require_telegram returns in open mode (no token
\* configured) equals the result of no verified payload under a configured
\* token, in particular not the {} of a verified payload without user field.
C12_OpenModeDistinguishable ==
    (Entered /\ config.TELEGRAM_BOT_TOKEN = "")
        => \A d \in EntryInitData, t \in Instants :
              LET verified == require_telegram(BotToken, d, t)
              IN  verified.status = 200 => verified.user # val.result[1].user

\* the claim of the request: what require_telegram returned, when it returned
Gate == val.result[1]
ClaimHasId == Entered /\ Gate.status = 200 /\ Gate.user.has_id

\* the rows of identities other than id are what they were before the request
OthersUntouched(id) ==
    /\ \A r \in users : r.telegram_id # id => r \in val.db0
    /\ \A r \in val.db0 : r.telegram_id # id => r \in users

RejectedAsMismatch ==
    /\ req[1].pc = "done"
    /\ req[1].status = 403
    /\ req[1].detail = "User ID mismatch"
    /\ users = val.db0
    /\ req[1].limits = <<>>
    /\ req[1].ai = ""
    /\ req[1].increments = 0
    /\ ~req[1].zeroed

\* C13 as stated (SpecEntry): a request whose validated claim carries an id
\* that differs from the telegram_id the caller supplied is answered 403
\* "User ID mismatch" with no store operation and no AI call.
C13_MismatchAlwaysRejected ==
    (/\ ClaimHasId
     /\ val.given
     /\ Gate.user.id # val.telegram_id)
        => RejectedAsMismatch

\* C13 as amended (SpecEntry): the request is answered 403 "User ID
\* mismatch", with no store operation and no AI call, when the claim's id is
\* non-zero and differs from the supplied telegram_id, in /api/solve only
\* for a supplied telegram_id other than 0 (a 0 is replaced by the claim's
\* id); and a request with a non-zero claim id X changes no row of another
\* identity and runs under no other id.
C13_MismatchRejectedBeforeStore ==
    (ClaimHasId /\ Gate.user.id # NoId)
        => /\ (/\ val.given
               /\ Gate.user.id # val.telegram_id
               /\ val.endpoint = "solve" => val.telegram_id # NoId)
                 => RejectedAsMismatch
           /\ OthersUntouched(Gate.user.id)
           /\ req[1].tid \in {NoId, Gate.user.id}

\* claim id 2, declared id 1, the row of identity 1 due for a period reset:
\* rejected, the row as it was
C13_Witness ==
    /\ ClaimHasId
    /\ Gate.user.id = 2
    /\ val.given
    /\ val.telegram_id = 1
    /\ \E r \in val.db0 : r.telegram_id = 1 /\ r.requests_used > 0
                          /\ clock - r.period_start >= CooldownSeconds
    /\ RejectedAsMismatch

\* the last call of SpecProfile was get_or_create_user
GotOrCreated == seq.op = "get_or_create_user"

\* C14 (SpecProfile): get_or_create_user returns the stored row; on an
\* existing row with empty username and first_name it returns that row and
\* leaves the table as it was (so a second call equals the first); with a
\* non-empty username and an empty first_name it changes the username and
\* nothing else, and symmetrically for first_name.
C14_GetOrCreateIdempotent ==
    GotOrCreated =>
        /\ seq.user = FetchOne(users, seq.id)
        /\ seq.before # <<>> =>
              /\ seq.user[1] =
                    [seq.before[1] EXCEPT
                        !.username = IF seq.username # "" THEN seq.username ELSE @,
                        !.first_name = IF seq.first_name # "" THEN seq.first_name ELSE @]
              /\ users = (seq.db0 \ {seq.before[1]}) \cup {seq.user[1]}
              /\ (seq.username = "" /\ seq.first_name = "")
                    => (seq.user = seq.before /\ users = seq.db0)

\* a pro row with usage counted, named ann/bob, called with username bob
\* and no first_name: the username is bob, the rest as before
C14_Witness ==
    /\ GotOrCreated
    /\ seq.before # <<>>
    /\ seq.before[1].username = "ann"
    /\ seq.before[1].first_name = "bob"
    /\ seq.before[1].is_pro = 1
    /\ seq.before[1].requests_used = FREE_LIMIT
    /\ seq.username = "bob"
    /\ seq.first_name = ""
    /\ seq.user[1] = [seq.before[1] EXCEPT !.username = "bob"]

\* C15 (Spec): under every interleaving of concurrent get_or_create_user
\* calls for the same identity there is at most one row of it, and no call
\* ends in a failure: each returns the row.
C15_ConcurrentCreateNeverFails ==
    /\ \A id \in Ids : Cardinality(SelectRows(users, id)) <= 1
    /\ \A p \in Procs : ~(req[p].pc = "done" /\ req[p].detail = "IntegrityError")

\* the last call of SpecSeq found a row of its identity
CalledOnRow == seq.op # "none" /\ seq.before # <<>>

\* the last call of SpecSeq was a reset: the admin reset, or a
\* check_can_solve on a row neither banned nor pro whose cooldown had elapsed
WasReset ==
    \/ seq.op = "reset_user_requests"
    \/ /\ seq.op = "check_can_solve"
       /\ seq.before[1].is_banned = 0
       /\ seq.before[1].is_pro = 0
       /\ seq.at - seq.before[1].period_start >= CooldownSeconds

\* C16 (SpecSeq): across every call, requests_used of a row decreases only
\* in a reset (the one inside check_can_solve or reset_user_requests); a
\* reset leaves requests_used = 0 and period_start = the instant of the
\* reset; no other call changes period_start, and created_at never changes.
C16_UsageMonotoneBetweenResets ==
    CalledOnRow =>
        /\ FetchOne(users, seq.id) # <<>>
        /\ LET before == seq.before[1]
               after == FetchOne(users, seq.id)[1]
           IN  /\ after.requests_used < before.requests_used => WasReset
               /\ WasReset => (after.requests_used = 0 /\ after.period_start = seq.at)
               /\ ~WasReset => after.period_start = before.period_start
               /\ after.created_at = before.created_at

\* the admin reset of a row with requests counted, after its creation
C16_Witness ==
    /\ CalledOnRow
    /\ seq.op = "reset_user_requests"
    /\ seq.before[1].requests_used > 0
    /\ seq.at > seq.before[1].period_start
    /\ \E r \in users : r.requests_used = 0 /\ r.period_start = seq.at

\* the row check_can_solve read, and that row after the call
RowReset ==
    \E r \in SelectRows(users, seq.id) : r.requests_used = 0 /\ r.period_start = seq.at
RowKept ==
    \E r \in SelectRows(users, seq.id) :
        /\ r.requests_used = seq.before[1].requests_used
        /\ r.period_start = seq.before[1].period_start

\* C17 as stated (SpecSeq): for every row, check_can_solve at time now
\* applies the reset (requests_used = 0, period_start = now) if
\* now - period_start >= 7 days and changes neither field otherwise.
C17_ResetForEveryRecord ==
    EvaluatedRow =>
        IF seq.at - seq.before[1].period_start >= 7 * 86400 THEN RowReset ELSE RowKept

\* C17 as amended (SpecSeq): for a row that is neither banned nor pro and
\* whose period_start is not 0, check_can_solve at time now applies the
\* reset exactly when now - period_start >= 7 days (7 days included) and
\* changes neither field otherwise; the row of a banned or pro identity,
\* and a row with period_start = 0 (read as now), is never reset by it.
C17_ResetExactlyWhenElapsed ==
    EvaluatedRow =>
        IF /\ seq.before[1].is_banned = 0
           /\ seq.before[1].is_pro = 0
           /\ seq.before[1].period_start # 0
           /\ seq.at - seq.before[1].period_start >= 7 * 86400
        THEN RowReset
        ELSE RowKept

\* exactly 7 days after period_start, requests counted: reset
C17_Witness ==
    /\ EvaluatedRow
    /\ seq.before[1].is_banned = 0
    /\ seq.before[1].is_pro = 0
    /\ seq.before[1].requests_used > 0
    /\ seq.at - seq.before[1].period_start = 7 * 86400
    /\ RowReset

\* check_can_solve was called on the row of the scenario, d days after the
\* row was created, the row holding 10 counted requests and its first period
ScenarioEvaluated(d) ==
    /\ EvaluatedRow
    /\ seq.id = ScenarioId
    /\ seq.before[1].requests_used = 10
    /\ seq.before[1].period_start <= seq.before[1].created_at
    /\ seq.at = seq.before[1].created_at + d * 86400

\* C18 as stated (SpecScenario): identity 42 created at t = 0, 10
\* increment_usage calls; check_can_solve at t = 1 day returns
\* {false, 0, limit} and at t = 8 days returns {true, 10, free}.
C18_ScenarioFromZero ==
    /\ ScenarioEvaluated(1) => seq.limits = <<DeniedLimit>>
    /\ ScenarioEvaluated(8) => seq.limits = <<AllowedFree(10)>>

\* C18 as amended (SpecScenario): identity 42 created at an instant T other
\* than 0 of the clock, 10 increment_usage calls; check_can_solve at
\* T + 1 day returns {false, 0, limit} and at T + 8 days returns
\* {true, 10, free}.
C18_ScenarioFromCreation ==
    seq.before # <<>> /\ seq.before[1].created_at # 0
        => /\ ScenarioEvaluated(1) => seq.limits = <<DeniedLimit>>
           /\ ScenarioEvaluated(8) => seq.limits = <<AllowedFree(10)>>

C18_Witness ==
    /\ ScenarioEvaluated(8)
    /\ seq.before[1].created_at # 0
    /\ seq.limits = <<AllowedFree(10)>>
    /\ \E r \in users : r.telegram_id = ScenarioId /\ r.requests_used = 0

\* the increment_usage calls that have completed for the identity
Recorded(id) == {p \in Procs : req[p].tid = id /\ req[p].increments = 1}

\* C19 (SpecCount): increment_usage is one atomic statement, so under every
\* interleaving of concurrent calls on an existing row, with no reset in
\* between, requests_used has grown by exactly the number of calls that
\* have completed; once all N have completed it has grown by N.
C19_NoLostUpdate ==
    \A r \in SelectRows(users, seq.id) :
        r.requests_used = seq.before[1].requests_used + Cardinality(Recorded(seq.id))

\* two calls under way at the same time have both completed: grown by 2
C19_Witness ==
    /\ Cardinality(Recorded(seq.id)) = NumProcs
    /\ peak[seq.id] = NumProcs
    /\ \A p \in Procs : req[p].pc = "done"
    /\ \E r \in users : /\ r.telegram_id = seq.id
                        /\ r.requests_used = seq.before[1].requests_used + NumProcs
                        /\ r.requests_used > FREE_LIMIT

\* the last call of SpecBackends, made on the same table at the same clock
\* under the other backend
OtherBackend == BackendApply(~config.use_turso, seq.call, seq.db0, seq.at)

MissingHash == val.init_data.hash.kind # "hex"
NonIntegerAuthDate == val.init_data.fields["auth_date"].kind \notin {"absent", "int"}
ExpiredAuthDate ==
    \/ val.init_data.fields["auth_date"].kind = "absent" /\ clock - 0 > 86400
    \/ /\ val.init_data.fields["auth_date"].kind = "int"
       /\ clock - val.init_data.fields["auth_date"].n > 86400
HashMismatch == ~MissingHash /\ ~HashIsOfCheckString
MalformedUser == val.init_data.fields["user"].kind = "malformed"

AuthFailures ==
    {<<"hash", MissingHash>>, <<"auth_date", NonIntegerAuthDate>>,
     <<"expired", ExpiredAuthDate>>, <<"mismatch", HashMismatch>>,
     <<"user", MalformedUser>>}

\* C22 (SpecValidate): with a configured token, a supplied payload that has
\* no or an empty hash, a non-integer auth_date, an expired auth_date, a
\* hash that is not the one of its check-string, or a user text that does
\* not parse, makes validate_init_data return None, whichever of these
\* applies, and require_telegram answer 403 "Invalid Telegram
\* authorization".
C22_AuthFailuresAlike ==
    \A f \in AuthFailures :
        (Validated /\ val.init_data.present /\ config.TELEGRAM_BOT_TOKEN # "" /\ f[2])
            => /\ val.result[1] = NoneResult
               /\ require_telegram(config.TELEGRAM_BOT_TOKEN, val.init_data, clock)
                    = [status |-> 403, detail |-> "Invalid Telegram authorization",
                       user |-> NoneResult]

\* a payload the platform signed under the configured token, not expired,
\* whose only fault is a user text that does not parse
C22_Witness ==
    /\ Validated
    /\ CorrectlySigned
    /\ MalformedUser
    /\ ~ExpiredAuthDate /\ ~NonIntegerAuthDate
    /\ val.result[1] = NoneResult

\* the last call of SpecSeq was op on an identity that had a row
CalledOnExisting(op) == seq.op = op /\ seq.before # <<>>

\* C23 (SpecSeq): increment_usage on an existing row leaves that row with
\* requests_used one higher and every other column as it was, whatever
\* is_banned, is_pro and requests_used are (also at and above FREE_LIMIT);
\* every call counts, so that a row no reset has touched holds the number
\* of calls made on it.
C23_IncrementUnconditional ==
    CalledOnExisting("increment_usage")
        => /\ SelectRows(users, seq.id)
                = {[telegram_id |-> seq.before[1].telegram_id,
                    username |-> seq.before[1].username,
                    first_name |-> seq.before[1].first_name,
                    is_banned |-> seq.before[1].is_banned,
                    is_pro |-> seq.before[1].is_pro,
                    requests_used |-> seq.before[1].requests_used + 1,
                    period_start |-> seq.before[1].period_start,
                    created_at |-> seq.before[1].created_at]}
           /\ seq.fresh => \A r \in SelectRows(users, seq.id) : r.requests_used = seq.calls

\* a banned row already above the limit is counted once more
C23_Witness ==
    /\ CalledOnExisting("increment_usage")
    /\ seq.before[1].is_banned = 1
    /\ seq.before[1].requests_used = FREE_LIMIT + 1
    /\ \E r \in users : r.telegram_id = seq.id /\ r.requests_used = FREE_LIMIT + 2

\* the row of the last call's identity agrees with the row before the call
\* in every column outside cols
ChangedAtMost(cols) ==
    \E r \in SelectRows(users, seq.id) :
        \A c \in (DOMAIN r) \ cols : r[c] = seq.before[1][c]

\* C24 (SpecSeq): on an existing row set_user_pro changes no column but
\* is_pro, set_user_banned no column but is_banned, whatever the other
\* columns hold, and reset_user_requests sets requests_used to 0 and
\* period_start to the instant of the call and changes nothing else;
\* get_or_create_user, check_can_solve and increment_usage leave is_pro and
\* is_banned as they were.
C24_AdminFrame ==
    /\ CalledOnExisting("set_user_pro")
          => ChangedAtMost({"is_pro"}) /\ \A r \in users : r.is_pro \in {0, 1}
    /\ CalledOnExisting("set_user_banned")
          => ChangedAtMost({"is_banned"}) /\ \A r \in users : r.is_banned \in {0, 1}
    /\ CalledOnExisting("reset_user_requests")
          => SelectRows(users, seq.id)
                = {[seq.before[1] EXCEPT !.requests_used = 0, !.period_start = seq.at]}
    /\ \A op \in {"get_or_create_user", "check_can_solve", "increment_usage"} :
          CalledOnExisting(op)
              => ChangedAtMost({"username", "first_name", "requests_used",
                                "period_start"})

\* pro is granted to a banned row that is at the limit: the ban stays
C24_Witness ==
    /\ CalledOnExisting("set_user_pro")
    /\ seq.before[1].is_banned = 1
    /\ seq.before[1].is_pro = 0
    /\ seq.before[1].requests_used = FREE_LIMIT
    /\ \E r \in users : r.telegram_id = seq.id /\ r.is_pro = 1 /\ r.is_banned = 1

\* the last call of SpecSeq was op on an identity that had no row
CalledOnUnseen(op) == seq.op = op /\ seq.before = <<>>

\* the row a first lookup at the instant of the last call writes
FirstRow ==
    [telegram_id |-> seq.id, username |-> "", first_name |-> "", is_banned |-> 0,
     is_pro |-> 0, requests_used |-> 0, period_start |-> seq.at, created_at |-> seq.at]

\* C26 (SpecSeq): the first get_or_create_user or check_can_solve for an
\* identity without a row stores a row with is_banned = 0, is_pro = 0,
\* requests_used = 0 and period_start = created_at = the instant of the
\* call; get_or_create_user returns that row and check_can_solve returns
\* {allowed: true, remaining: 10, reason: free}; and no step removes a row
\* or changes its telegram_id or created_at.
C26_CreatedOnFirstLookup ==
    /\ [](/\ (CalledOnUnseen("get_or_create_user") \/ CalledOnUnseen("check_can_solve"))
                => SelectRows(users, seq.id) = {FirstRow}
          /\ CalledOnUnseen("get_or_create_user") => seq.user = <<FirstRow>>
          /\ CalledOnUnseen("check_can_solve") => seq.limits = <<AllowedFree(10)>>)
    /\ [][\A r \in users : \E q \in users' : /\ q.telegram_id = r.telegram_id
                                             /\ q.created_at = r.created_at]_vars

\* the first evaluation of an identity, made a day after the start
C26_Witness ==
    /\ CalledOnUnseen("check_can_solve")
    /\ seq.at = Epoch + 86400
    /\ seq.limits = <<AllowedFree(10)>>
    /\ \E r \in users : r.telegram_id = seq.id /\ r.period_start = Epoch + 86400

\* the last request of SpecAdmin went to an admin endpoint
AdminRequested == seq.op \in AdminEndpoints

\* C25 (SpecAdmin): a request to an admin endpoint whose secret is not the
\* configured, non-empty ADMIN_SECRET is answered 403 when a secret is
\* configured and 500 when none is, returns no rows and leaves the table as
\* it was; only a request carrying the configured secret is answered 200.
C25_AdminGate ==
    AdminRequested
        => /\ (config.ADMIN_SECRET # "" /\ seq.secret # config.ADMIN_SECRET)
                 => (seq.status = 403 /\ users = seq.db0
                     /\ seq.body = [ok |-> FALSE, users |-> <<>>])
           /\ config.ADMIN_SECRET = ""
                 => (seq.status = 500 /\ users = seq.db0
                     /\ seq.body = [ok |-> FALSE, users |-> <<>>])
           /\ seq.status = 200
                 => (config.ADMIN_SECRET # "" /\ seq.secret = config.ADMIN_SECRET)

\* with no secret configured, a ban of an existing identity sent with the
\* empty secret is refused and the row stays unbanned
C25_Witness ==
    /\ AdminRequested
    /\ seq.op = "admin_set_ban"
    /\ config.ADMIN_SECRET = ""
    /\ seq.secret = ""
    /\ seq.status = 500
    /\ \E r \in users : r.telegram_id = seq.id /\ r.is_banned = 0

\* the last step of SpecAdmin was a statement for an identity without a row:
\* increment_usage, or an admin request that passed the gate
StatementOnUnseen ==
    /\ seq.before = <<>>
    /\ \/ seq.op = "increment_usage"
       \/ /\ seq.op \in {"admin_set_pro", "admin_set_ban", "admin_reset_requests"}
          /\ seq.status = 200

\* C30 (SpecAdmin): increment_usage, and the set-pro, set-ban and reset
\* requests that pass the admin gate, for an identity without a row store no
\* row and fail in no way (the admin request is answered 200 {ok: true});
\* the get_or_create_user that comes next for the identity stores and
\* returns the row of a first lookup, with is_pro = 0, is_banned = 0 and
\* requests_used = 0.
C30_NoOpOnUnseen ==
    /\ [](StatementOnUnseen
            => /\ SelectRows(users, seq.id) = {}
               /\ seq.op # "increment_usage" => seq.body = [ok |-> TRUE, users |-> <<>>])
    /\ [][(StatementOnUnseen /\ seq'.op = "get_or_create_user" /\ seq'.id = seq.id)
            => (seq'.before = <<>> /\ seq'.user = <<[FirstRow EXCEPT !.period_start = seq'.at,
                                                       !.created_at = seq'.at]>>
                /\ SelectRows(users', seq.id) = {seq'.user[1]})]_vars

\* a ban for an identity without a row was answered ok and no row is stored
C30_Witness ==
    /\ StatementOnUnseen
    /\ seq.op = "admin_set_ban"
    /\ seq.body.ok
    /\ users = {}

\* /api/user has answered 200: req[1].user is the row the response reports
\* (requests_used, is_pro, is_banned) and req[1].limits the decision
\* (remaining, allowed, reason)
UserAnswered == val.endpoint = "user" /\ Entered /\ req[1].status = 200

\* C29 (SpecEntry): in a 200 response of /api/user for an identity that is
\* neither pro nor banned, remaining = max(0, 10 - requests_used), and the
\* reported requests_used is the one the table holds after the call, also
\* when check_can_solve reset the period inside the request.
C29_UserResponseConsistent ==
    (UserAnswered /\ req[1].user[1].is_pro = 0 /\ req[1].user[1].is_banned = 0)
        => /\ req[1].limits[1].remaining = Max(0, 10 - req[1].user[1].requests_used)
           /\ \A r \in SelectRows(users, req[1].tid) :
                 r.requests_used = req[1].user[1].requests_used

\* C21 (SpecStore): a request one of whose store statements failed (I/O
\* error, timeout, status outside 2xx, error-typed result) is answered 500;
\* if the statement belonged to check_can_solve the request holds no
\* decision, neither a denial nor a grant, and makes no AI call; the failing
\* step changes no row, and after it the request runs no further statement
\* (no retry).
C21_StoreFailurePropagates ==
    /\ [](\A p \in Procs :
            req[p].failed # ""
                => /\ req[p].pc = "done"
                   /\ req[p].status = 500
                   /\ req[p].detail = "Internal Server Error"
                   /\ req[p].increments = 0
                   /\ req[p].ai = "" => req[p].limits = <<>>)
    /\ [][\A p \in Procs :
            /\ req[p].failed # "" => req'[p] = req[p]
            /\ req'[p].failed # req[p].failed => users' = users]_vars

\* the UPDATE of the period reset timed out: no decision, the row keeps its
\* count
C21_Witness ==
    \E p \in Procs :
        /\ req[p].failed = "timeout"
        /\ req[p].ai = ""
        /\ req[p].limits = <<>>
        /\ clock = Epoch + CooldownSeconds
        /\ \E r \in users : r.telegram_id = req[p].tid /\ r.requests_used = FREE_LIMIT
                            /\ r.period_start = Epoch

\* every request slot has been used and has answered
AllAnswered == \A p \in Procs : req[p].pc = "done"

\* C28 (SpecStore): requests made after the cooldown of a free identity's
\* row has elapsed; once all have answered, the row, whose period was
\* reset, holds as many counted requests as increment_usage calls have
\* completed since: no reset decided from a row read earlier has erased one.
C28_ResetKeepsNewUsage ==
    (AllAnswered /\ clock = Epoch + CooldownSeconds)
        => \A r \in SelectRows(users, 1) :
              r.period_start = clock => r.requests_used = Cardinality(Recorded(1))

\* C27 as stated (SpecSerial): with requests handled one after another for
\* an identity that is never pro, requests_used never exceeds 10 and at most
\* 10 requests are granted within one period of the row.
C27_AtMostTenGranted ==
    /\ \A r \in users : r.requests_used <= 10
    /\ seq.granted <= 10

\* C27 as amended (SpecSerial): with requests handled one after another for
\* an identity that is never pro, requests_used never exceeds 10 and at most
\* 10 requests are granted and answered within one period of the row; every
\* answered request of the period is counted in requests_used.
C27_AtMostTenFulfilled ==
    /\ \A r \in users : r.requests_used <= 10 /\ r.requests_used = seq.fulfilled
    /\ seq.fulfilled <= 10

\* ten requests answered in the period, more than ten granted, the next
\* one denied
C27_Witness ==
    /\ seq.fulfilled = 10
    /\ seq.granted > 10
    /\ seq.limits = <<DeniedLimit>>
    /\ \E r \in users : r.requests_used = 10

\* C31 (SpecProfileRace): the UPDATE of a get_or_create_user call that
\* supplied a username and no first_name leaves the stored first_name of
\* the row as it was just before the UPDATE, also when another call has
\* committed a new first_name since this call read the row.
C31_UnsuppliedNameKept ==
    [][\A p \in Procs :
          (req[p].pc = "update" /\ req'[p].pc = "reselect"
           /\ req[p].username # "" /\ req[p].first_name = "")
              => \A r \in users : \A q \in users' :
                    q.telegram_id = r.telegram_id => q.first_name = r.first_name]_vars
====
